---------------------------- MODULE Spec2Model ----------------------------
(***************************************************************************)
(* A model of the element / attribute / class-list core of the markup      *)
(* builder: Classes and Attributes (html_builder/attributes.py), the       *)
(* HTMLBuilder base element (html_builder/core.py), the ordered child      *)
(* collection Elements, and the elements built on them: LineBreak and Div  *)
(* (elements/format.py), Text (elements/text.py), OrderedList and          *)
(* UnorderedList (elements/lists.py) and Table (elements/tables.py).       *)
(*                                                                         *)
(* Python strings are sequences of one-character strings; a Python dict is *)
(* a sequence of <<key, value>> pairs with pairwise distinct keys, in      *)
(* insertion order.                                                        *)
(***************************************************************************)
EXTENDS Integers, Sequences, FiniteSets, TLC

VARIABLES
    classes,        \* Classes._classes: dict original name -> sanitized name
    replacements,   \* Classes._replacements: dict pattern -> replacement
    attributes,     \* Attributes._attributes: dict attribute name -> value
    elements,       \* Elements: the ordered children
    max_elements,   \* Elements.max_elements: None or an int
    valid_types,    \* Elements.valid_types: None or a tuple of types
    heap,           \* the Attributes and Classes objects, by identity
    builders,       \* the HTMLBuilder objects: _attributes (a reference), _elements
    tag,            \* the tag of the one element a Text, list or Table scenario is about
    rt,             \* a from_string / construct / from_string round trip
    last            \* the last call: its name, arguments and result

classVars == <<classes, replacements>>

elemVars == <<elements, max_elements, valid_types>>

heapVars == <<heap, builders>>

vars ==
    <<classes, replacements, attributes, elements, max_elements, valid_types,
      heap, builders, tag, rt, last>>

----------------------------------------------------------------------------
(* Strings                                                                 *)

\* str.lower() on one character
LowerChar(c) ==
    CASE c = "A" -> "a"
      [] c = "B" -> "b"
      [] c = "C" -> "c"
      [] OTHER -> c

\* str.lower()
Lower(s) == [i \in 1..Len(s) |-> LowerChar(s[i])]

\* The whitespace of str.strip() and of the regular expression class \s
Spaces == {" ", "\t"}

IsSpace(c) == c \in Spaces

RECURSIVE LStrip(_)
LStrip(s) ==
    IF s = <<>> THEN <<>>
    ELSE IF IsSpace(Head(s)) THEN LStrip(Tail(s))
    ELSE s

RECURSIVE RStrip(_)
RStrip(s) ==
    IF s = <<>> THEN <<>>
    ELSE IF IsSpace(s[Len(s)]) THEN RStrip(SubSeq(s, 1, Len(s) - 1))
    ELSE s

\* str.strip()
Strip(s) == RStrip(LStrip(s))

\* s.startswith(k)
StartsWith(s, k) == Len(k) <= Len(s) /\ SubSeq(s, 1, Len(k)) = k

\* str.replace(k, v, 1): the first occurrence alone
RECURSIVE ReplaceFirst(_, _, _)
ReplaceFirst(s, k, v) ==
    IF s = <<>> THEN <<>>
    ELSE IF StartsWith(s, k)
         THEN v \o SubSeq(s, Len(k) + 1, Len(s))
         ELSE <<Head(s)>> \o ReplaceFirst(Tail(s), k, v)

\* str.replace(k, v) for a non-empty pattern k: left to right, non-overlapping
RECURSIVE Replace(_, _, _)
Replace(s, k, v) ==
    IF s = <<>> THEN <<>>
    ELSE IF StartsWith(s, k)
         THEN v \o Replace(SubSeq(s, Len(k) + 1, Len(s)), k, v)
         ELSE <<Head(s)>> \o Replace(Tail(s), k, v)

\* sep.join(parts)
RECURSIVE Join(_, _)
Join(parts, sep) ==
    IF parts = <<>> THEN <<>>
    ELSE IF Len(parts) = 1 THEN parts[1]
    ELSE parts[1] \o sep \o Join(Tail(parts), sep)

\* str.split(sep) for a one-character separator: empty segments are kept
RECURSIVE SplitAcc(_, _, _)
SplitAcc(s, sep, cur) ==
    IF s = <<>> THEN <<cur>>
    ELSE IF Head(s) = sep THEN <<cur>> \o SplitAcc(Tail(s), sep, <<>>)
    ELSE SplitAcc(Tail(s), sep, Append(cur, Head(s)))

Split(s, sep) == SplitAcc(s, sep, <<>>)

----------------------------------------------------------------------------
(* Dictionaries                                                            *)

Keys(d) == [i \in 1..Len(d) |-> d[i][1]]

Values(d) == [i \in 1..Len(d) |-> d[i][2]]

Range(q) == {q[i] : i \in 1..Len(q)}

HasKey(d, k) == \E i \in 1..Len(d) : d[i][1] = k

\* d[k] for a key that is present
Get(d, k) == d[CHOOSE i \in 1..Len(d) : d[i][1] = k][2]

\* d[k] = v: an existing key keeps its position, a new key goes last
DictSet(d, k, v) ==
    IF HasKey(d, k)
    THEN [i \in 1..Len(d) |-> IF d[i][1] = k THEN <<k, v>> ELSE d[i]]
    ELSE Append(d, <<k, v>>)

\* d.update(e), and dict(pairs) when d is empty
RECURSIVE DictUpdate(_, _)
DictUpdate(d, e) ==
    IF e = <<>> THEN d
    ELSE DictUpdate(DictSet(d, e[1][1], e[1][2]), Tail(e))

\* d without key k (the mapping left by d.pop(k))
DictDel(d, k) == SelectSeq(d, LAMBDA p : p[1] # k)

----------------------------------------------------------------------------
(* Classes                                                                 *)

DEFAULT_REPLACEMENTS == << << <<" ">>, <<"-">> >> >>

\* the loop of _sanitize_name over self._replacements.items()
RECURSIVE ApplyReplacements(_, _)
ApplyReplacements(name, repl) ==
    IF repl = <<>> THEN name
    ELSE ApplyReplacements(Replace(name, repl[1][1], repl[1][2]), Tail(repl))

\* Classes._sanitize_name with lower=True, strip=True
SanitizeName(name, repl) == ApplyReplacements(Strip(Lower(name)), repl)

\* Classes.set: {arg: self._sanitize_name(arg) for arg in args}
ClassesSet(args, repl) ==
    DictUpdate(<<>>, [i \in 1..Len(args) |-> <<args[i], SanitizeName(args[i], repl)>>])

\* Classes.add
ClassesAdd(cls, args, repl) ==
    LET old_sanitized_names == Range(Values(cls))
        new_names == [i \in 1..Len(args) |-> <<args[i], SanitizeName(args[i], repl)>>]
        filtered_names ==
            DictUpdate(<<>>, SelectSeq(new_names, LAMBDA p : p[2] \notin old_sanitized_names))
    IN  DictUpdate(cls, filtered_names)

\* Classes.remove looking the name up by its sanitized form only
ClassesRemoveBySanitized(cls, name, repl) ==
    LET hits == {i \in 1..Len(cls) : cls[i][2] = SanitizeName(name, repl)}
    IN  IF hits = {}
        THEN [classes |-> cls, ret |-> <<>>, raised |-> TRUE]
        ELSE LET i == CHOOSE j \in hits : \A h \in hits : j <= h
             IN  [classes |-> DictDel(cls, cls[i][1]), ret |-> cls[i], raised |-> FALSE]

\* Classes.remove: the mapping afterwards, the returned pair, whether KeyError was raised
ClassesRemove(cls, name, repl) ==
    IF HasKey(cls, name)
    THEN [classes |-> DictDel(cls, name), ret |-> <<name, Get(cls, name)>>, raised |-> FALSE]
    ELSE LET hits == {i \in 1..Len(cls) : cls[i][2] = SanitizeName(name, repl)}
         IN  IF hits = {}
             THEN [classes |-> cls, ret |-> <<>>, raised |-> TRUE]
             ELSE LET i == CHOOSE j \in hits : \A h \in hits : j <= h
                  IN  [classes |-> DictDel(cls, cls[i][1]), ret |-> cls[i], raised |-> FALSE]

\* Classes.clear
ClassesClear(cls) == <<>>

\* Classes.__init__(*args): default replacements, then set(*args)
ClassesInit(args) == ClassesSet(args, DEFAULT_REPLACEMENTS)

\* Classes.from_string
ClassesFromString(string) == ClassesInit(Split(string, " "))

\* Classes.construct
ClassesConstruct(cls) == Join(Values(cls), <<" ">>)

\* Classes.__bool__
ClassesBool(cls) == Len(cls) > 0

\* a comparison of the original names instead of the sanitized values
ClassesEqByKeys(c1, c2) == Range(Keys(c1)) = Range(Keys(c2))

\* Classes.__eq__ on two Classes objects
ClassesEq(c1, c2) == Range(Values(c1)) = Range(Values(c2))

----------------------------------------------------------------------------
(* Attribute values: a str, a bool, None or a Classes object               *)

StrV(s) == [t |-> "str", s |-> s]

BoolV(b) == [t |-> "bool", b |-> b]

NoneV == [t |-> "none"]

ClsV(c) == [t |-> "cls", c |-> c]

\* a list of strings, as the classes setter accepts
ListV(l) == [t |-> "list", l |-> l]

TrueV == BoolV(TRUE)

CLASS == <<"c", "l", "a", "s", "s">>

QUOTE == "'"

\* bool(value)
Truthy(v) ==
    CASE v.t = "str"  -> Len(v.s) > 0
      [] v.t = "bool" -> v.b
      [] v.t = "none" -> FALSE
      [] v.t = "cls"  -> ClassesBool(v.c)
      [] v.t = "list" -> Len(v.l) > 0
      [] v.t = "int"  -> v.n # 0

\* one decimal digit
Digit(d) == CASE d = 0 -> "0" [] d = 1 -> "1" [] d = 2 -> "2" [] d = 3 -> "3"
              [] d = 4 -> "4" [] d = 5 -> "5" [] d = 6 -> "6" [] d = 7 -> "7"
              [] d = 8 -> "8" [] d = 9 -> "9"

\* str(n) for an int n >= 0
RECURSIVE IntToStr(_)
IntToStr(n) == IF n < 10 THEN <<Digit(n)>> ELSE IntToStr(n \div 10) \o <<Digit(n % 10)>>

\* str(value) for a value rendered inside key='...'
ToStr(v) ==
    CASE v.t = "str" -> v.s
      [] v.t = "cls" -> ClassesConstruct(v.c)
      [] v.t = "bool" -> IF v.b THEN <<"T", "r", "u", "e">> ELSE <<"F", "a", "l", "s", "e">>
      [] v.t = "none" -> <<"N", "o", "n", "e">>
      [] v.t = "int" -> IntToStr(v.n)

\* value == other
ValueEq(v, w) ==
    CASE v.t = "cls" /\ w.t = "cls" -> ClassesEq(v.c, w.c)
      [] v.t = "cls" \/ w.t = "cls" -> FALSE
      [] OTHER -> v = w

----------------------------------------------------------------------------
(* Attributes                                                              *)

\* the conversion both add and set apply: a str under "class" becomes
\* Classes.from_string of it
CoerceClass(m) ==
    IF HasKey(m, CLASS) /\ Get(m, CLASS).t = "str"
    THEN DictSet(m, CLASS, ClsV(ClassesFromString(Get(m, CLASS).s)))
    ELSE m

\* Attributes.set
AttributesSet(m) == CoerceClass(m)

\* Attributes.__init__(attributes): None is written <<>> with given = FALSE
AttributesInit(given, m) == IF given THEN AttributesSet(m) ELSE <<>>

\* Attributes.add
AttributesAdd(attrs, m) ==
    LET filtered == SelectSeq(m, LAMBDA p : ~HasKey(attrs, p[1]))
    IN  DictUpdate(attrs, CoerceClass(filtered))

\* Attributes.remove: the mapping afterwards, the returned pair, whether KeyError was raised
AttributesRemove(attrs, name) ==
    IF ~HasKey(attrs, name)
    THEN [attributes |-> attrs, ret |-> <<>>, raised |-> TRUE]
    ELSE [attributes |-> DictDel(attrs, name),
          ret |-> <<name, Get(attrs, name)>>, raised |-> FALSE]

\* Attributes.clear
AttributesClear(attrs) == <<>>

\* Attributes.__setitem__
AttributesSetItem(attrs, key, value) == DictSet(attrs, key, value)

\* Attributes.__getitem__: the value, or KeyError for a key that is not stored
AttributesGetItem(attrs, key) ==
    IF HasKey(attrs, key) THEN [ret |-> Get(attrs, key), raised |-> FALSE]
    ELSE [ret |-> <<>>, raised |-> TRUE]

\* the classes getter: None when no class key is stored
AttributesClasses(attrs) == IF HasKey(attrs, CLASS) THEN Get(attrs, CLASS) ELSE NoneV

\* the classes setter: the mapping afterwards and whether TypeError was raised
AttributesSetClasses(attrs, value) ==
    IF value.t = "str"
    THEN [attributes |-> DictSet(attrs, CLASS, ClsV(ClassesFromString(value.s))),
          raised |-> FALSE]
    ELSE IF value.t = "list" /\ Len(value.l) > 0
    THEN [attributes |-> DictSet(attrs, CLASS, ClsV(ClassesInit(value.l))),
          raised |-> FALSE]
    ELSE IF value.t = "cls"
    THEN [attributes |-> DictSet(attrs, CLASS, value), raised |-> FALSE]
    ELSE [attributes |-> attrs, raised |-> TRUE]

\* construct that tests `value is not None` where the code tests `value`
ConstructPairNotNone(key, value) ==
    IF value.t = "none" \/ (value.t = "bool" /\ value.b)
    THEN <<key>>
    ELSE <<key \o <<"=", QUOTE>> \o ToStr(value) \o <<QUOTE>>>>

\* one entry of Attributes.construct: the rendered pair, or nothing
ConstructPair(key, value) ==
    IF value.t = "none" \/ (value.t = "bool" /\ value.b)
    THEN <<key>>
    ELSE IF Truthy(value)
    THEN <<key \o <<"=", QUOTE>> \o ToStr(value) \o <<QUOTE>>>>
    ELSE <<>>

RECURSIVE ConstructPairs(_)
ConstructPairs(attrs) ==
    IF attrs = <<>> THEN <<>>
    ELSE ConstructPair(attrs[1][1], attrs[1][2]) \o ConstructPairs(Tail(attrs))

\* Attributes.construct
AttributesConstruct(attrs) == Join(ConstructPairs(attrs), <<" ">>)

\* Attributes.__bool__
AttributesBool(attrs) == Len(attrs) > 0

\* Attributes.__eq__ on two Attributes objects: dict equality
AttributesEq(a1, a2) ==
    /\ Range(Keys(a1)) = Range(Keys(a2))
    /\ \A k \in Range(Keys(a1)) : ValueEq(Get(a1, k), Get(a2, k))

----------------------------------------------------------------------------
(* Attributes.from_string                                                  *)

\* the length of the longest prefix of s of characters outside the set stop
RECURSIVE RunLen(_, _)
RunLen(s, stop) ==
    IF s = <<>> \/ Head(s) \in stop THEN 0
    ELSE 1 + RunLen(Tail(s), stop)

\* the index of the first occurrence of c in s at or after position i, 0 if none
RECURSIVE IndexFrom(_, _, _)
IndexFrom(s, c, i) ==
    IF i > Len(s) THEN 0
    ELSE IF s[i] = c THEN i
    ELSE IndexFrom(s, c, i + 1)

\* The length of the match of [^'\s]+='[^']*'|\S+ at the start of s, where
\* s starts with a non-space character.  The first alternative matches only
\* when the run of characters that are neither quote nor space ends in "=",
\* is followed by a quote, and a closing quote follows.
MatchLen(s) ==
    LET j == RunLen(s, Spaces \cup {QUOTE})
        q == IndexFrom(s, QUOTE, j + 2)
    IN  IF j >= 2 /\ s[j] = "=" /\ j + 1 <= Len(s) /\ s[j + 1] = QUOTE /\ q > 0
        THEN q
        ELSE RunLen(s, Spaces)

\* split_preserving_quotes: re.findall(r"[^'\s]+='[^']*'|\S+", string)
RECURSIVE SplitPreservingQuotes(_)
SplitPreservingQuotes(s) ==
    IF s = <<>> THEN <<>>
    ELSE IF IsSpace(Head(s)) THEN SplitPreservingQuotes(Tail(s))
    ELSE LET n == MatchLen(s)
         IN  <<SubSeq(s, 1, n)>> \o SplitPreservingQuotes(SubSeq(s, n + 1, Len(s)))

\* str.partition("="): <<before, after>>
PartitionEq(s) ==
    LET i == IndexFrom(s, "=", 1)
    IN  IF i = 0 THEN <<s, <<>>>>
        ELSE <<SubSeq(s, 1, i - 1), SubSeq(s, i + 1, Len(s))>>

RECURSIVE LStripQuote(_)
LStripQuote(s) ==
    IF s = <<>> THEN <<>>
    ELSE IF Head(s) = QUOTE THEN LStripQuote(Tail(s))
    ELSE s

RECURSIVE RStripQuote(_)
RStripQuote(s) ==
    IF s = <<>> THEN <<>>
    ELSE IF s[Len(s)] = QUOTE THEN RStripQuote(SubSeq(s, 1, Len(s) - 1))
    ELSE s

\* str.strip("'")
StripQuote(s) == RStripQuote(LStripQuote(s))

\* the loop of from_string: one pair becomes one dictionary entry
PairEntry(pair) ==
    LET kv == PartitionEq(pair)
        value == StripQuote(kv[2])
    IN  <<kv[1], IF value = <<>> THEN TrueV ELSE StrV(value)>>

\* Attributes.from_string
AttributesFromString(string) ==
    LET pairs == SplitPreservingQuotes(string)
        attrs == DictUpdate(<<>>, [i \in 1..Len(pairs) |-> PairEntry(pairs[i])])
    IN  AttributesInit(TRUE, attrs)

----------------------------------------------------------------------------
(* Elements: the ordered child collection                                  *)

IntV(n) == [t |-> "int", n |-> n]

\* the classes a value of each type is an instance of
Bases(type) ==
    CASE type = "HorizontalRule" -> {"HorizontalRule", "LineBreak", "HTMLBuilder"}
      [] type = "LineBreak"      -> {"LineBreak", "HTMLBuilder"}
      [] type = "Div"            -> {"Div", "HTMLBuilder"}
      [] type = "ListItem"       -> {"ListItem", "GenericElement", "HTMLBuilder"}
      [] type = "Header"         -> {"Header", "Row", "HTMLBuilder"}
      [] type = "Row"            -> {"Row", "HTMLBuilder"}
      [] OTHER                   -> {type}

\* validate.is_builder
IsBuilder(child) == "HTMLBuilder" \in Bases(child.type)

\* validate.is_element
IsElement(child) == IsBuilder(child) \/ child.type = "str"

\* isinstance(child, valid_types)
IsInstance(child, types) == Bases(child.type) \cap Range(types) # {}

\* The error a mutation raises that brings in `incoming` and leaves `newlen`
\* children: first the types of the incoming children, then the capacity.
ElementsCheck(incoming, newlen, max, types) ==
    IF \E i \in 1..Len(incoming) : ~IsElement(incoming[i])
    THEN "TypeError"
    ELSE IF types.t = "types" /\ \E i \in 1..Len(incoming) : ~IsInstance(incoming[i], types.s)
    THEN "TypeError"
    ELSE IF max.t = "int" /\ newlen > max.n
    THEN "ValueError"
    ELSE ""

\* a list index as Python reads it: negative indices count from the end
NormIndex(q, index) == IF index < 0 THEN index + Len(q) ELSE index

InRange(q, index) == NormIndex(q, index) \in 0..(Len(q) - 1)

\* list.insert(index, x): the index is clamped to the list
ListInsert(q, index, x) ==
    LET n == NormIndex(q, index)
        k == IF n < 0 THEN 0 ELSE IF n > Len(q) THEN Len(q) ELSE n
    IN  SubSeq(q, 1, k) \o <<x>> \o SubSeq(q, k + 1, Len(q))

\* Each operation gives the children afterwards, the returned value and the
\* error raised ("" when none).
Done(els, ret) == [elements |-> els, ret |-> ret, raised |-> ""]

Raise(els, error) == [elements |-> els, ret |-> <<>>, raised |-> error]

\* add that checks the types of the children and not the capacity
ElementsAddUnlimited(els, children, max, types) ==
    LET error == ElementsCheck(children, 0, max, types)
    IN  IF error # "" THEN Raise(els, error) ELSE Done(els \o children, <<>>)

\* Elements.add(*children)
ElementsAdd(els, children, max, types) ==
    LET error == ElementsCheck(children, Len(els) + Len(children), max, types)
    IN  IF error # "" THEN Raise(els, error) ELSE Done(els \o children, <<>>)

\* set that clears the old children before it validates the new ones
ElementsSetClearFirst(els, children, max, types) ==
    LET error == ElementsCheck(children, Len(children), max, types)
    IN  IF error # "" THEN Raise(<<>>, error) ELSE Done(children, <<>>)

\* Elements.set(*children)
ElementsSet(els, children, max, types) ==
    LET error == ElementsCheck(children, Len(children), max, types)
    IN  IF error # "" THEN Raise(els, error) ELSE Done(children, <<>>)

\* Elements.insert(index, child)
ElementsInsert(els, index, child, max, types) ==
    LET error == ElementsCheck(<<child>>, Len(els) + 1, max, types)
    IN  IF error # "" THEN Raise(els, error) ELSE Done(ListInsert(els, index, child), <<>>)

\* Elements.update(index, child) and elements[index] = child
ElementsUpdate(els, index, child, max, types) ==
    LET error == ElementsCheck(<<child>>, Len(els), max, types)
    IN  IF error # "" THEN Raise(els, error)
        ELSE IF ~InRange(els, index) THEN Raise(els, "IndexError")
        ELSE Done([els EXCEPT ![NormIndex(els, index) + 1] = child], <<>>)

\* Elements.pop(index), Elements.remove(index) and del elements[index]
ElementsPop(els, index) ==
    IF ~InRange(els, index) THEN Raise(els, "IndexError")
    ELSE LET k == NormIndex(els, index) + 1
         IN  Done(SubSeq(els, 1, k - 1) \o SubSeq(els, k + 1, Len(els)), els[k])

\* Elements.clear()
ElementsClear(els) == Done(<<>>, <<>>)

\* a max_elements setter that rejects a value equal to the current length
ElementsSetMaxStrict(els, max, value) ==
    IF value.t \notin {"int", "none"} THEN [max |-> max, raised |-> "TypeError"]
    ELSE IF value.t = "int" /\ value.n < 0 THEN [max |-> max, raised |-> "ValueError"]
    ELSE IF value.t = "int" /\ value.n <= Len(els) THEN [max |-> max, raised |-> "ValueError"]
    ELSE [max |-> value, raised |-> ""]

\* The max_elements setter: the value stored afterwards and the error raised
ElementsSetMax(els, max, value) ==
    IF value.t \notin {"int", "none"} THEN [max |-> max, raised |-> "TypeError"]
    ELSE IF value.t = "int" /\ value.n < 0 THEN [max |-> max, raised |-> "ValueError"]
    ELSE IF value.t = "int" /\ value.n < Len(els) THEN [max |-> max, raised |-> "ValueError"]
    ELSE [max |-> value, raised |-> ""]

\* the type names a program can name
TypeNames == {"str", "int", "LineBreak", "HorizontalRule", "Div", "HTMLBuilder"}

\* types_to_tuple: a type or a list / tuple of types as a tuple, None for
\* None or an empty one; anything else is no type
TypesToTuple(value) ==
    IF value.t = "type" /\ value.v \in TypeNames THEN [t |-> "types", s |-> <<value.v>>]
    ELSE IF value.t = "seq" /\ Len(value.s) = 0 THEN NoneV
    ELSE IF value.t = "seq" /\ Range(value.s) \subseteq TypeNames THEN [t |-> "types", s |-> value.s]
    ELSE IF value.t = "none" THEN NoneV
    ELSE [t |-> "error"]

\* a valid_types setter that stores the types without looking at the children
ElementsSetTypesUnchecked(els, types, value) ==
    LET new == TypesToTuple(value)
    IN  IF new.t = "error" THEN [types |-> types, raised |-> "TypeError"]
        ELSE [types |-> new, raised |-> ""]

\* The valid_types setter: the value stored afterwards and the error raised
ElementsSetTypes(els, types, value) ==
    LET new == TypesToTuple(value)
    IN  IF new.t = "error" THEN [types |-> types, raised |-> "TypeError"]
        ELSE IF new.t = "types" /\ \E i \in 1..Len(els) : ~IsInstance(els[i], new.s)
        THEN [types |-> types, raised |-> "TypeError"]
        ELSE [types |-> new, raised |-> ""]

----------------------------------------------------------------------------
(* HTMLBuilder objects and the objects they refer to                       *)

\* the identities of the Attributes and Classes objects: A, K and KA are the
\* caller's Attributes, the caller's Classes and the Classes inside A; Bi and
\* Ki are the Attributes and the Classes created for builder i
ObjIds == {"A", "K", "KA", "M", "B1", "B2", "K1", "K2"}

BuilderIds == {1, 2}

NoObject == [kind |-> "none", d |-> <<>>]

NoBuilder == [made |-> FALSE, tag |-> <<>>, attributes |-> "", elements |-> <<>>]

\* a child that is an element: a reference to a builder
ElemRef(i) == [t |-> "elem", r |-> i]

DIV == <<"d", "i", "v">>

BR == <<"b", "r">>

Ref(id) == [t |-> "ref", r |-> id]

AttributesObject(d) == [kind |-> "Attributes", d |-> d]

ClassesObject(d) == [kind |-> "Classes", d |-> d]

\* a plain dict of the caller
DictObject(d) == [kind |-> "dict", d |-> d]

FreshAttributes(i) == IF i = 1 THEN "B1" ELSE "B2"

FreshClasses(i) == IF i = 1 THEN "K1" ELSE "K2"

\* the dict of an Attributes object with each Classes object read through
\* its reference
Deref(h, d) ==
    [i \in 1..Len(d) |->
        IF d[i][2].t = "ref" THEN <<d[i][1], ClsV(h[d[i][2].r].d)>> ELSE d[i]]

\* Attributes.classes setter on the object `a`, called for builder i with a
\* class string or a reference to a Classes object: a string makes a new
\* Classes object, a Classes object is stored as it is
HeapSetClasses(h, a, i, value) ==
    IF value.t = "str"
    THEN [h EXCEPT ![FreshClasses(i)] = ClassesObject(ClassesFromString(value.s)),
                   ![a].d = DictSet(@, CLASS, Ref(FreshClasses(i)))]
    ELSE [h EXCEPT ![a].d = DictSet(@, CLASS, value)]

\* __init__ that keeps a class entry the attributes already hold
BuilderInitKeepClass(h, i, attrs, cls) ==
    LET own == IF attrs # "" /\ AttributesBool(h[attrs].d) THEN attrs ELSE FreshAttributes(i)
        h1  == IF own = attrs THEN h ELSE [h EXCEPT ![own] = AttributesObject(<<>>)]
        fails == cls.t # "none" /\ h1[own].kind = "dict"
        h2  == IF cls.t # "none" /\ ~fails /\ ~HasKey(h1[own].d, CLASS)
               THEN HeapSetClasses(h1, own, i, cls) ELSE h1
    IN  [heap |-> h2,
         raised |-> IF fails THEN "AttributeError" ELSE "",
         builder |-> IF fails THEN NoBuilder
                     ELSE [made |-> TRUE, tag |-> <<>>, attributes |-> own, elements |-> <<>>]]

\* HTMLBuilder.__init__ for builder i: `attributes` is "" (None) or the
\* identity of the caller's Attributes or plain dict, `cls` is NoneV, a
\* class string or a reference to the caller's Classes; gives the heap, the
\* builder and the error raised. The argument is kept as it is when it is
\* truthy, so a plain dict stays a dict, and the assignment to its
\* `classes` raises AttributeError
BuilderInit(h, i, attrs, cls) ==
    LET own == IF attrs # "" /\ AttributesBool(h[attrs].d) THEN attrs ELSE FreshAttributes(i)
        h1  == IF own = attrs THEN h ELSE [h EXCEPT ![own] = AttributesObject(<<>>)]
        fails == cls.t # "none" /\ h1[own].kind = "dict"
        h2  == IF cls.t # "none" /\ ~fails THEN HeapSetClasses(h1, own, i, cls) ELSE h1
    IN  [heap |-> h2,
         raised |-> IF fails THEN "AttributeError" ELSE "",
         builder |-> IF fails THEN NoBuilder
                     ELSE [made |-> TRUE, tag |-> <<>>, attributes |-> own, elements |-> <<>>]]

\* Div.set_data(data): clear_elements, then add_elements (list.extend)
BuilderSetData(b, data) == [b EXCEPT !.elements = <<>> \o data]

\* HTMLBuilder.add_element
BuilderAddElement(b, element) == [b EXCEPT !.elements = Append(@, element)]

\* repr() of a value of a dict: a str in quotes, True, False, None, an int
\* in digits, a Classes object as Classes('name', ...)
ReprValue(v) ==
    CASE v.t = "str"  -> <<QUOTE>> \o v.s \o <<QUOTE>>
      [] v.t = "bool" -> IF v.b THEN <<"T", "r", "u", "e">> ELSE <<"F", "a", "l", "s", "e">>
      [] v.t = "none" -> <<"N", "o", "n", "e">>
      [] v.t = "int"  -> IntToStr(v.n)
      [] v.t = "cls"  ->
            <<"C", "l", "a", "s", "s", "e", "s", "(">>
            \o Join([i \in 1..Len(v.c) |-> <<QUOTE>> \o v.c[i][1] \o <<QUOTE>>], <<",", " ">>)
            \o <<")">>

\* str() of a plain dict: {'key': value, ...}
DictRepr(d) ==
    <<"{">>
    \o Join([i \in 1..Len(d) |-> <<QUOTE>> \o d[i][1] \o <<QUOTE, ":", " ">> \o ReprValue(d[i][2])],
             <<",", " ">>)
    \o <<"}">>

\* the attributes string of a construct: f" {self.attributes}" if
\* self.attributes else ""
AttributesString(h, b) ==
    LET attrs == Deref(h, h[b.attributes].d)
    IN  IF ~AttributesBool(attrs) THEN <<>>
        ELSE IF h[b.attributes].kind = "dict" THEN <<" ">> \o DictRepr(attrs)
        ELSE <<" ">> \o AttributesConstruct(attrs)

\* a line break rendered with a closing tag
LineBreakConstructClosed(h, b) ==
    <<"<">> \o b.tag \o AttributesString(h, b) \o <<">", "<", "/">> \o b.tag \o <<">">>

\* LineBreak.construct
LineBreakConstruct(h, b) == <<"<">> \o b.tag \o AttributesString(h, b) \o <<">">>

\* Div.construct; f"{element}" of a child that is an element is its construct()
RECURSIVE DivConstruct(_, _, _)
DivConstruct(h, bs, b) ==
    LET child(c) == IF c.t = "str" THEN c.s
                    ELSE IF bs[c.r].tag = DIV THEN DivConstruct(h, bs, bs[c.r])
                    ELSE LineBreakConstruct(h, bs[c.r])
    IN  <<"<">> \o b.tag \o AttributesString(h, b) \o <<">">>
        \o Join([k \in 1..Len(b.elements) |-> child(b.elements[k])], <<>>)
        \o <<"<", "/">> \o b.tag \o <<">">>

\* construct() of a builder, by its class
BuilderConstruct(h, bs, b) ==
    IF b.tag = DIV THEN DivConstruct(h, bs, b) ELSE LineBreakConstruct(h, b)

\* builder == other: HTMLBuilder defines no __eq__, so the objects are
\* compared by identity
BuilderEq(i, j) == i = j

----------------------------------------------------------------------------
(* One Classes object under a caller that constructs it and then calls its *)
(* methods in any order.                                                   *)

\* Class names a caller passes: inner space, hyphen, upper case with a
\* leading space, plain
ClassTokens ==
    { <<"a", " ", "b">>, <<"a", "-", "b">>, <<" ", "A">>, <<"a">> }

\* Argument lists of a variadic call: no, one or two names
ClassArgs ==
    {<<>>} \cup {<<t>> : t \in ClassTokens}
           \cup {<<t, u>> : t \in ClassTokens, u \in ClassTokens}

\* Class strings handed to Classes.from_string
ClassStrings ==
    { <<" ", "a">>, <<"a", " ", "a", "-", "b">> }

\* Replacement tables a caller assigns
ReplacementTables ==
    { DEFAULT_REPLACEMENTS,
      << << <<" ">>, <<"_">> >>, << <<"a">>, <<"z", "z">> >> >> }

\* no round trip under way
RtIdle == [pc |-> "idle"]

\* what a call on the Classes object leaves alone
ClassesFrame == UNCHANGED <<attributes, elemVars, heapVars, tag, rt>>

\* what a call on the Attributes object leaves alone
AttributesFrame == UNCHANGED <<classVars, elemVars, heapVars, tag, rt>>

\* what a step of the round trip leaves alone
RoundTripFrame == UNCHANGED <<classVars, attributes, elemVars, heapVars, tag, last>>

\* what a call on the Elements object leaves alone
ElementsFrame == UNCHANGED <<classVars, attributes, heapVars, tag, rt>>

\* what a call on a builder leaves alone
BuilderFrame == UNCHANGED <<classVars, attributes, elemVars, tag, rt>>

\* an Elements object that takes no part
ElementsIdle ==
    /\ elements = <<>>
    /\ max_elements = NoneV
    /\ valid_types = NoneV
    /\ heap = [id \in ObjIds |-> NoObject]
    /\ builders = [i \in BuilderIds |-> NoBuilder]
    /\ tag = <<>>

\* The record of a call: its name, its arguments, what it returned and whether it raised
Call(op, args, ret, raised) ==
    [op |-> op, args |-> args, ret |-> ret, raised |-> raised]

\* Classes(*args)
InitClasses ==
    \E args \in ClassArgs :
        /\ classes = ClassesInit(args)
        /\ replacements = DEFAULT_REPLACEMENTS
        /\ last = Call("init", args, <<>>, FALSE)
        /\ attributes = <<>>
        /\ ElementsIdle
        /\ rt = RtIdle

\* Classes.from_string(string): a new object
CFromString ==
    \E string \in ClassStrings :
        /\ classes' = ClassesFromString(string)
        /\ replacements' = DEFAULT_REPLACEMENTS
        /\ last' = Call("from_string", string, <<>>, FALSE)
        /\ ClassesFrame

CAdd ==
    \E args \in ClassArgs :
        /\ classes' = ClassesAdd(classes, args, replacements)
        /\ last' = Call("add", args, <<>>, FALSE)
        /\ UNCHANGED replacements
        /\ ClassesFrame

CSet ==
    \E args \in ClassArgs :
        /\ classes' = ClassesSet(args, replacements)
        /\ last' = Call("set", args, <<>>, FALSE)
        /\ UNCHANGED replacements
        /\ ClassesFrame

CRemove ==
    \E name \in ClassTokens :
        LET r == ClassesRemove(classes, name, replacements)
        IN  /\ classes' = r.classes
            /\ last' = Call("remove", name, r.ret, r.raised)
            /\ UNCHANGED replacements
            /\ ClassesFrame

CClear ==
    /\ classes' = ClassesClear(classes)
    /\ last' = Call("clear", <<>>, <<>>, FALSE)
    /\ UNCHANGED replacements
    /\ ClassesFrame

\* the replacements setter: store the table, then set(*self._classes.keys())
CSetReplacements ==
    \E r \in ReplacementTables :
        /\ replacements' = r
        /\ classes' = ClassesSet(Keys(classes), r)
        /\ last' = Call("replacements", r, <<>>, FALSE)
        /\ ClassesFrame

\* Classes.reset_replacements: the stored names are not recomputed
CResetReplacements ==
    /\ replacements' = DEFAULT_REPLACEMENTS
    /\ last' = Call("reset_replacements", <<>>, <<>>, FALSE)
    /\ UNCHANGED classes
    /\ ClassesFrame

NextClasses ==
    \/ CFromString
    \/ CAdd
    \/ CSet
    \/ CRemove
    \/ CClear
    \/ CSetReplacements
    \/ CResetReplacements

SpecClasses == InitClasses /\ [][NextClasses]_vars

----------------------------------------------------------------------------
(* One Attributes object under a caller that constructs it and then calls  *)
(* its methods in any order.                                               *)

ID == <<"i", "d">>

KEY == <<"k">>

DISABLED == <<"d", "i", "s", "a", "b", "l", "e", "d">>

WIDTH == <<"w", "i", "d", "t", "h">>

\* Mappings a caller passes to Attributes(...), set and add
AttrMaps ==
    { <<>>,
      << <<ID, StrV(<<"x">>)>> >>,
      << <<CLASS, StrV(<<"a", " ", "B">>)>> >>,
      << <<CLASS, ClsV(ClassesInit(<< <<"a", " ", "b">> >>))>>, <<ID, StrV(<<"y">>)>> >>,
      << <<KEY, TrueV>>, <<ID, BoolV(FALSE)>> >>,
      << <<KEY, NoneV>>, <<CLASS, StrV(<<"c">>)>> >> }

\* the maps passed to the constructor and to set: those, a map with a str,
\* a True and an int value, and a map with an empty str, a 0 and an empty
\* class string
SetMaps ==
    AttrMaps \cup
    { << <<ID, StrV(<<"t", "e", "s", "t">>)>>, <<DISABLED, TrueV>>, <<WIDTH, [t |-> "int", n |-> 50]>> >>,
      << <<ID, StrV(<<>>)>>, <<WIDTH, [t |-> "int", n |-> 0]>>, <<CLASS, StrV(<<>>)>> >> }

\* Values a caller assigns with attributes[key] = value
ItemValues == { StrV(<<"z">>), TrueV, ClsV(ClassesInit(<< <<"c">> >>)) }

\* Values a caller assigns to the classes property
ClassesValues ==
    { StrV(<<"a", " ", "b">>), StrV(<<" ">>), ListV(<< <<"a", " ", "b">> >>), ListV(<<>>),
      ClsV(ClassesInit(<< <<"c">> >>)), NoneV }

\* Attributes(attributes)
InitAttributes ==
    /\ \E given \in BOOLEAN, m \in SetMaps :
          /\ given \/ m = <<>>
          /\ attributes = AttributesInit(given, m)
          /\ last = Call("init", <<given, m>>, <<>>, FALSE)
    /\ classes = <<>>
    /\ replacements = DEFAULT_REPLACEMENTS
    /\ ElementsIdle
    /\ rt = RtIdle

ASet ==
    \E m \in SetMaps :
        /\ attributes' = AttributesSet(m)
        /\ last' = Call("set", m, <<>>, FALSE)
        /\ AttributesFrame

AAdd ==
    \E m \in AttrMaps :
        /\ attributes' = AttributesAdd(attributes, m)
        /\ last' = Call("add", m, <<>>, FALSE)
        /\ AttributesFrame

ARemove ==
    \E name \in {CLASS, ID, KEY} :
        LET r == AttributesRemove(attributes, name)
        IN  /\ attributes' = r.attributes
            /\ last' = Call("remove", name, r.ret, r.raised)
            /\ AttributesFrame

AClear ==
    /\ attributes' = AttributesClear(attributes)
    /\ last' = Call("clear", <<>>, <<>>, FALSE)
    /\ AttributesFrame

ASetItem ==
    \E key \in {CLASS, ID}, value \in ItemValues :
        /\ attributes' = AttributesSetItem(attributes, key, value)
        /\ last' = Call("setitem", <<key, value>>, <<>>, FALSE)
        /\ AttributesFrame

AGetItem ==
    \E key \in {CLASS, ID, KEY} :
        LET r == AttributesGetItem(attributes, key)
        IN  /\ attributes' = attributes
            /\ last' = Call("getitem", key, r.ret, r.raised)
            /\ AttributesFrame

AConstruct ==
    /\ attributes' = attributes
    /\ last' = Call("construct", <<>>, AttributesConstruct(attributes), FALSE)
    /\ AttributesFrame

ASetClasses ==
    \E value \in ClassesValues :
        LET r == AttributesSetClasses(attributes, value)
        IN  /\ attributes' = r.attributes
            /\ last' = Call("classes", value, <<>>, r.raised)
            /\ AttributesFrame

NextAttributes ==
    \/ ASet
    \/ AAdd
    \/ ARemove
    \/ AClear
    \/ ASetItem
    \/ AGetItem
    \/ AConstruct
    \/ ASetClasses

SpecAttributes == InitAttributes /\ [][NextAttributes]_vars

----------------------------------------------------------------------------
(* The round trip from_string -> construct -> from_string on one string.   *)

MaxPieces == 5

\* The pieces attribute strings are put together from
RtPieces == { CLASS, <<"i">>, <<"=">>, <<QUOTE>>, <<" ">>, <<"a">> }

RECURSIVE Concat(_)
Concat(parts) == IF parts = <<>> THEN <<>> ELSE parts[1] \o Concat(Tail(parts))

\* every string made of at most MaxPieces pieces
RtStrings ==
    UNION { {Concat(ps) : ps \in [1..n -> RtPieces]} : n \in 0..MaxPieces }

InitRoundTrip ==
    /\ \E string \in RtStrings :
          rt = [pc |-> "start", string |-> string]
    /\ classes = <<>>
    /\ replacements = DEFAULT_REPLACEMENTS
    /\ attributes = <<>>
    /\ ElementsIdle
    /\ last = Call("init", <<>>, <<>>, FALSE)

\* A = Attributes.from_string(s)
RtParse ==
    /\ rt.pc = "start"
    /\ rt' = [pc |-> "parsed", string |-> rt.string,
              parsed |-> AttributesFromString(rt.string)]
    /\ RoundTripFrame

\* A.construct()
RtConstruct ==
    /\ rt.pc = "parsed"
    /\ rt' = [pc |-> "constructed", string |-> rt.string, parsed |-> rt.parsed,
              rendered |-> AttributesConstruct(rt.parsed)]
    /\ RoundTripFrame

\* Attributes.from_string(A.construct())
RtReparse ==
    /\ rt.pc = "constructed"
    /\ rt' = [pc |-> "reparsed", string |-> rt.string, parsed |-> rt.parsed,
              rendered |-> rt.rendered,
              reparsed |-> AttributesFromString(rt.rendered)]
    /\ RoundTripFrame

NextRoundTrip ==
    \/ RtParse
    \/ RtConstruct
    \/ RtReparse

SpecRoundTrip == InitRoundTrip /\ [][NextRoundTrip]_vars

----------------------------------------------------------------------------
(* One Elements object under a caller that constructs it and then calls    *)
(* its methods and setters in any order.                                   *)

\* the largest count of children the caller lets an unlimited object reach
MaxChildren == 2

Child(type, v) == [type |-> type, v |-> v]

\* children the object accepts when it has no type constraint
ValidChildren == { Child("str", "x"), Child("LineBreak", "br"), Child("HorizontalRule", "hr") }

\* values offered as children: the valid ones and an int
OfferedChildren == ValidChildren \cup { Child("int", "1") }

\* the argument lists of add and set
ChildArgs ==
    {<<>>} \cup { <<a>> : a \in OfferedChildren }
           \cup { <<a, b>> : a \in ValidChildren, b \in OfferedChildren }

\* the indices a caller passes: the last one, each position, one past the end
Indices == -1..MaxChildren

\* values assigned to max_elements
MaxValues == { NoneV, BoolV(TRUE) } \cup { IntV(n) : n \in -1..MaxChildren }

\* values assigned to valid_types
TypesValues ==
    { NoneV,
      [t |-> "type", v |-> "str"],
      [t |-> "type", v |-> "LineBreak"],
      [t |-> "seq", s |-> <<>>],
      [t |-> "seq", s |-> <<"str", "HorizontalRule">>],
      [t |-> "value", x |-> "1"] }

InitElements ==
    /\ classes = <<>>
    /\ replacements = DEFAULT_REPLACEMENTS
    /\ attributes = <<>>
    /\ rt = RtIdle
    /\ heap = [id \in ObjIds |-> NoObject]
    /\ builders = [i \in BuilderIds |-> NoBuilder]
    /\ tag = <<>>
    /\ \E args \in ChildArgs :
        /\ ElementsCheck(args, Len(args), NoneV, NoneV) = ""
        /\ elements = args
        /\ last = Call("init", args, <<>>, "")
    /\ max_elements = NoneV
    /\ valid_types = NoneV

\* the caller stops growing an unlimited object at MaxChildren
Bounded(r) == Len(r.elements) <= MaxChildren

EAdd ==
    \E args \in ChildArgs :
        LET r == ElementsAdd(elements, args, max_elements, valid_types)
        IN  /\ Bounded(r)
            /\ elements' = r.elements
            /\ last' = Call("add", args, r.ret, r.raised)
            /\ UNCHANGED <<max_elements, valid_types>>
            /\ ElementsFrame

ESet ==
    \E args \in ChildArgs :
        LET r == ElementsSet(elements, args, max_elements, valid_types)
        IN  /\ elements' = r.elements
            /\ last' = Call("set", args, r.ret, r.raised)
            /\ UNCHANGED <<max_elements, valid_types>>
            /\ ElementsFrame

EInsert ==
    \E index \in Indices, child \in OfferedChildren :
        LET r == ElementsInsert(elements, index, child, max_elements, valid_types)
        IN  /\ Bounded(r)
            /\ elements' = r.elements
            /\ last' = Call("insert", <<index, child>>, r.ret, r.raised)
            /\ UNCHANGED <<max_elements, valid_types>>
            /\ ElementsFrame

EUpdate ==
    \E index \in Indices, child \in OfferedChildren :
        LET r == ElementsUpdate(elements, index, child, max_elements, valid_types)
        IN  /\ elements' = r.elements
            /\ last' = Call("update", <<index, child>>, r.ret, r.raised)
            /\ UNCHANGED <<max_elements, valid_types>>
            /\ ElementsFrame

ESetItem ==
    \E index \in Indices, child \in OfferedChildren :
        LET r == ElementsUpdate(elements, index, child, max_elements, valid_types)
        IN  /\ elements' = r.elements
            /\ last' = Call("setitem", <<index, child>>, r.ret, r.raised)
            /\ UNCHANGED <<max_elements, valid_types>>
            /\ ElementsFrame

ERemove ==
    \E index \in Indices :
        LET r == ElementsPop(elements, index)
        IN  /\ elements' = r.elements
            /\ last' = Call("remove", <<index>>, <<>>, r.raised)
            /\ UNCHANGED <<max_elements, valid_types>>
            /\ ElementsFrame

EPop ==
    \E index \in Indices :
        LET r == ElementsPop(elements, index)
        IN  /\ elements' = r.elements
            /\ last' = Call("pop", <<index>>, r.ret, r.raised)
            /\ UNCHANGED <<max_elements, valid_types>>
            /\ ElementsFrame

EClear ==
    LET r == ElementsClear(elements)
    IN  /\ elements' = r.elements
        /\ last' = Call("clear", <<>>, r.ret, r.raised)
        /\ UNCHANGED <<max_elements, valid_types>>
        /\ ElementsFrame

ESetMax ==
    \E value \in MaxValues :
        LET r == ElementsSetMax(elements, max_elements, value)
        IN  /\ max_elements' = r.max
            /\ last' = Call("max_elements", value, <<>>, r.raised)
            /\ UNCHANGED <<elements, valid_types>>
            /\ ElementsFrame

ESetTypes ==
    \E value \in TypesValues :
        LET r == ElementsSetTypes(elements, valid_types, value)
        IN  /\ valid_types' = r.types
            /\ last' = Call("valid_types", value, <<>>, r.raised)
            /\ UNCHANGED <<elements, max_elements>>
            /\ ElementsFrame

NextElements ==
    \/ EAdd
    \/ ESet
    \/ EInsert
    \/ EUpdate
    \/ ESetItem
    \/ ERemove
    \/ EPop
    \/ EClear
    \/ ESetMax
    \/ ESetTypes

SpecElements == InitElements /\ [][NextElements]_vars

----------------------------------------------------------------------------
(* Two Div builders made by one caller from the caller's Attributes,       *)
(* Classes and data list, then changed through either builder.             *)

\* the most children a builder is given
MaxData == 2

\* the maps the caller's Attributes object is made from
CallerMaps ==
    { <<>>, << <<ID, StrV(<<"x">>)>> >>, << <<CLASS, StrV(<<"c">>)>>, <<ID, StrV(<<"x">>)>> >> }

\* the data list the caller hands to each Div
CallerData == << StrV(<<"x">>) >>

\* the `attributes` arguments of a constructor: None or the caller's object
AttributesArgs == {"", "A"}

\* the `classes` arguments of a constructor and the values assigned to
\* builder.attributes.classes: None, a class string, the caller's object
ClassesArgs == { NoneV, StrV(<<"e">>), Ref("K") }

\* the maps passed to builder.attributes.add
AddedMaps == { << <<KEY, TrueV>> >> }

\* the caller's objects: Attributes(m), whose class string became a Classes
\* object of its own, and Classes("c")
CallerHeap(m) ==
    LET d == AttributesInit(TRUE, m)
        a == [i \in 1..Len(d) |-> IF d[i][2].t = "cls" THEN <<d[i][1], Ref("KA")>> ELSE d[i]]
    IN  [id \in ObjIds |->
            CASE id = "A"  -> AttributesObject(a)
              [] id = "K"  -> ClassesObject(ClassesInit(<< <<"c">> >>))
              [] id = "KA" -> IF HasKey(d, CLASS) THEN ClassesObject(Get(d, CLASS).c) ELSE NoObject
              [] OTHER     -> NoObject]

InitBuilder ==
    /\ classes = <<>>
    /\ replacements = DEFAULT_REPLACEMENTS
    /\ attributes = <<>>
    /\ elements = <<>>
    /\ max_elements = NoneV
    /\ valid_types = NoneV
    /\ rt = RtIdle
    /\ \E m \in CallerMaps :
        /\ heap = CallerHeap(m)
        /\ last = Call("init", m, <<>>, FALSE)
    /\ builders = [i \in BuilderIds |-> NoBuilder]
    /\ tag = <<>>

\* Div(data, attributes, classes)
BNewDiv ==
    \E i \in BuilderIds, attrs \in AttributesArgs, cls \in ClassesArgs :
        LET r == BuilderInit(heap, i, attrs, cls)
        IN  /\ ~builders[i].made
            /\ heap' = r.heap
            /\ builders' = [builders EXCEPT
                    ![i] = BuilderSetData([r.builder EXCEPT !.tag = DIV], CallerData)]
            /\ last' = Call("Div", <<i, attrs, cls>>, <<>>, FALSE)
            /\ BuilderFrame

\* LineBreak(attributes, classes)
BNewLineBreak ==
    \E i \in BuilderIds, attrs \in AttributesArgs, cls \in ClassesArgs :
        LET r == BuilderInit(heap, i, attrs, cls)
        IN  /\ ~builders[i].made
            /\ heap' = r.heap
            /\ builders' = [builders EXCEPT ![i] = [r.builder EXCEPT !.tag = BR]]
            /\ last' = Call("LineBreak", <<i, attrs, cls>>, <<>>, FALSE)
            /\ BuilderFrame

\* builder.attributes.add(m)
BAttributesAdd ==
    \E i \in BuilderIds, m \in AddedMaps :
        /\ builders[i].made
        /\ heap' = [heap EXCEPT ![builders[i].attributes].d = AttributesAdd(@, m)]
        /\ last' = Call("attributes.add", <<i, m>>, <<>>, FALSE)
        /\ UNCHANGED builders
        /\ BuilderFrame

\* builder.classes.add(name): builder.classes is None without a class key
BClassesAdd ==
    \E i \in BuilderIds, name \in { <<"d">> } :
        LET d == heap[builders[i].attributes].d
        IN  /\ builders[i].made
            /\ IF HasKey(d, CLASS)
               THEN /\ heap' = [heap EXCEPT ![Get(d, CLASS).r].d =
                                    ClassesAdd(@, <<name>>, DEFAULT_REPLACEMENTS)]
                    /\ last' = Call("classes.add", <<i, name>>, <<>>, FALSE)
               ELSE /\ heap' = heap
                    /\ last' = Call("classes.add", <<i, name>>, <<>>, TRUE)
            /\ UNCHANGED builders
            /\ BuilderFrame

\* builder.attributes.classes = value
BSetClasses ==
    \E i \in BuilderIds, value \in ClassesArgs \ {NoneV} :
        /\ builders[i].made
        /\ heap' = HeapSetClasses(heap, builders[i].attributes, i, value)
        /\ last' = Call("attributes.classes", <<i, value>>, <<>>, FALSE)
        /\ UNCHANGED builders
        /\ BuilderFrame

\* the children a caller adds to builder i: a text, and for the first
\* builder the second builder once it is made
AddedChildren(i) ==
    { StrV(<<"z">>) } \cup (IF i = 1 /\ builders[2].made THEN { ElemRef(2) } ELSE {})

\* div.add(data)
BAddElement ==
    \E i \in BuilderIds :
        \E element \in AddedChildren(i) :
            /\ builders[i].made
            /\ builders[i].tag = DIV
            /\ Len(builders[i].elements) < MaxData
            /\ builders' = [builders EXCEPT ![i] = BuilderAddElement(@, element)]
            /\ last' = Call("add", <<i, element>>, <<>>, FALSE)
            /\ UNCHANGED heap
            /\ BuilderFrame

\* construct() that uses up the children it renders
BConstructConsuming ==
    \E i \in BuilderIds :
        /\ builders[i].made
        /\ last' = Call("construct", <<i>>, BuilderConstruct(heap, builders, builders[i]), FALSE)
        /\ builders' = [builders EXCEPT ![i].elements = <<>>]
        /\ UNCHANGED heap
        /\ BuilderFrame

\* builder.construct() and str(builder)
BConstruct ==
    \E i \in BuilderIds :
        /\ builders[i].made
        /\ last' = Call("construct", <<i>>, BuilderConstruct(heap, builders, builders[i]), FALSE)
        /\ UNCHANGED <<heap, builders>>
        /\ BuilderFrame

\* builder == other
BEq ==
    \E i, j \in BuilderIds :
        /\ builders[i].made
        /\ builders[j].made
        /\ last' = Call("eq", <<i, j>>, BuilderEq(i, j), FALSE)
        /\ UNCHANGED <<heap, builders>>
        /\ BuilderFrame

NextBuilder ==
    \/ BNewDiv
    \/ BAttributesAdd
    \/ BClassesAdd
    \/ BSetClasses
    \/ BAddElement

SpecBuilder == InitBuilder /\ [][NextBuilder]_vars

\* Two builders, each a Div or a LineBreak, made and filled by one caller
\* who then serializes and compares them.
NextSerialize ==
    \/ BNewDiv
    \/ BNewLineBreak
    \/ BAttributesAdd
    \/ BAddElement
    \/ BConstruct
    \/ BEq

SpecSerialize == InitBuilder /\ [][NextSerialize]_vars

----------------------------------------------------------------------------
(* Classes._sanitize_name applied to a name, then to its own result, under *)
(* the replacement table of the Classes object.                            *)

\* the longest name sanitized
MaxTokenLen == 4

\* the characters names are made of
SanitizeChars == { <<"a">>, <<"A">>, <<" ">>, <<"-">>, <<"\t">> }

\* every name of at most MaxTokenLen characters
SanitizeTokens ==
    UNION { {Concat(cs) : cs \in [1..n -> SanitizeChars]} : n \in 0..MaxTokenLen }

\* the replacement tables a caller assigns
SanitizeTables == ReplacementTables \cup { << << <<"a">>, <<"a", "a">> >> >> }

InitSanitize ==
    /\ \E token \in SanitizeTokens, table \in SanitizeTables :
          /\ rt = [pc |-> "token", token |-> token]
          /\ replacements = table
    /\ classes = <<>>
    /\ attributes = <<>>
    /\ ElementsIdle
    /\ last = Call("init", <<>>, <<>>, FALSE)

\* y = self._sanitize_name(x)
SSanitize ==
    /\ rt.pc = "token"
    /\ rt' = [pc |-> "once", token |-> rt.token,
              once |-> SanitizeName(rt.token, replacements)]
    /\ RoundTripFrame

\* self._sanitize_name(y)
SResanitize ==
    /\ rt.pc = "once"
    /\ rt' = [pc |-> "twice", token |-> rt.token, once |-> rt.once,
              twice |-> SanitizeName(rt.once, replacements)]
    /\ RoundTripFrame

NextSanitize ==
    \/ SSanitize
    \/ SResanitize

SpecSanitize == InitSanitize /\ [][NextSanitize]_vars

----------------------------------------------------------------------------
(* Properties of Classes                                                   *)

\* s without its i-th element
Without(q, i) == SubSeq(q, 1, i - 1) \o SubSeq(q, i + 1, Len(q))

\* C4: no two entries of a Classes object have the same sanitized value.
C4_UniqueSanitized ==
    \A i, j \in 1..Len(classes) : i # j => classes[i][2] # classes[j][2]

\* C8: adding a name twice, as the same original or as another name with
\* the same sanitized form, in one add call or in two successive calls,
\* leaves the entries that adding it once leaves.
C8_AddDedup ==
    [][ /\ ( /\ last'.op = "add"
             /\ Len(last'.args) = 2
             /\ SanitizeName(last'.args[1], replacements)
                  = SanitizeName(last'.args[2], replacements) )
           => classes' = ClassesAdd(classes, <<last'.args[1]>>, replacements)
        /\ ( /\ last.op = "add" /\ Len(last.args) = 1
             /\ last'.op = "add" /\ Len(last'.args) = 1
             /\ SanitizeName(last.args[1], replacements)
                  = SanitizeName(last'.args[1], replacements) )
           => classes' = classes
      ]_vars

\* C9: set(a, b) with a # b and equal sanitized forms leaves exactly one
\* entry, keyed by b; set discards every entry stored before the call.
C9_SetLastWins ==
    last.op = "set" =>
        /\ ( /\ Len(last.args) = 2
             /\ last.args[1] # last.args[2]
             /\ SanitizeName(last.args[1], replacements)
                  = SanitizeName(last.args[2], replacements) )
           => classes = << <<last.args[2], SanitizeName(last.args[2], replacements)>> >>
        /\ \A i \in 1..Len(classes) : classes[i][1] \in Range(last.args)

C10_WitnessRaised == last.op = "remove" /\ last.raised /\ Len(classes) > 0

\* C19: sanitize(sanitize(x)) = sanitize(x) for every name x and the
\* replacement table of the Classes object.
C19_Idempotent ==
    rt.pc = "twice" => rt.twice = rt.once

\* C19 for the default table: under DEFAULT_REPLACEMENTS
\* sanitize(sanitize(x)) = sanitize(x) for every name x.
C19_IdempotentDefault ==
    (rt.pc = "twice" /\ replacements = DEFAULT_REPLACEMENTS) => rt.twice = rt.once

\* " A a" was sanitized to "a-a" under the default table, and that again
C19_Witness ==
    /\ rt.pc = "twice"
    /\ replacements = DEFAULT_REPLACEMENTS
    /\ rt.token = <<" ", "A", " ", "a">>
    /\ rt.once = <<"a", "-", "a">>

----------------------------------------------------------------------------
(* Properties of Elements                                                  *)

\* the children a call brings in, read from the recorded call
Incoming(call) ==
    IF call.op \in {"add", "set"} THEN call.args
    ELSE IF call.op \in {"insert", "update", "setitem"} THEN <<call.args[2]>>
    ELSE <<>>

\* the length the collection would have after the recorded call
Proposed(call, els) ==
    IF call.op = "add" THEN Len(els) + Len(call.args)
    ELSE IF call.op = "insert" THEN Len(els) + 1
    ELSE IF call.op = "set" THEN Len(call.args)
    ELSE Len(els)

WithinCapacity == max_elements.t = "int" => Len(elements) <= max_elements.n

AllOfValidTypes ==
    valid_types.t = "types" =>
        \A i \in 1..Len(elements) : IsInstance(elements[i], valid_types.s)

C1_WitnessVoid ==
    /\ last.op = "add"
    /\ last.raised = "ValueError"
    /\ max_elements = IntV(0)
    /\ elements = <<>>

\* C2: with valid_types = T every child is an instance of a type in T,
\* whatever calls were made; an add, insert, set, update or index assignment
\* that brings a child that is no instance of a type in T raises TypeError
\* and leaves the children exactly as they were.
C2_ValidTypes ==
    /\ []AllOfValidTypes
    /\ [][ ( /\ last'.op \in {"add", "insert", "set", "update", "setitem"}
             /\ valid_types.t = "types"
             /\ \E i \in 1..Len(Incoming(last')) :
                    ~IsInstance(Incoming(last')[i], valid_types.s) )
           => /\ last'.raised = "TypeError"
              /\ elements' = elements
         ]_vars

\* set with an acceptable first child and a second child of a type outside
\* T raised TypeError on a collection that holds children
C2_Witness ==
    /\ last.op = "set"
    /\ last.raised = "TypeError"
    /\ valid_types.t = "types"
    /\ Len(last.args) = 2
    /\ IsInstance(last.args[1], valid_types.s)
    /\ IsElement(last.args[2])
    /\ ~IsInstance(last.args[2], valid_types.s)
    /\ Len(elements) > 0

\* C16: assigning max_elements: a negative int and an int below the current
\* number of children raise ValueError, a value that is no int (a bool too)
\* raises TypeError, and a rejected value changes nothing; None and an int
\* not below the current length are stored.
C16_SetMaxElements ==
    [][ last'.op = "max_elements" =>
          LET value == last'.args
              accepted == value.t = "none" \/ (value.t = "int" /\ value.n >= Len(elements))
          IN  /\ (value.t = "int" /\ value.n < 0) => last'.raised = "ValueError"
              /\ (value.t = "int" /\ value.n < Len(elements)) => last'.raised = "ValueError"
              /\ value.t \notin {"int", "none"} => last'.raised = "TypeError"
              /\ last'.raised # "" => max_elements' = max_elements
              /\ accepted => (last'.raised = "" /\ max_elements' = value)
              /\ elements' = elements
      ]_vars

\* a max equal to the number of children held was accepted
C16_Witness ==
    /\ last.op = "max_elements"
    /\ last.raised = ""
    /\ Len(elements) > 0
    /\ max_elements = IntV(Len(elements))

\* C17: assigning valid_types: one type or a list / tuple of types is stored
\* as a tuple, None or an empty one as None; a value that is no type raises
\* TypeError; types that a current child is no instance of raise TypeError;
\* a rejected value changes neither valid_types nor the children.
C17_SetValidTypes ==
    [][ last'.op = "valid_types" =>
          LET value == last'.args
              tuple == CASE value.t = "type" -> [t |-> "types", s |-> <<value.v>>]
                         [] value.t = "seq" /\ value.s # <<>> -> [t |-> "types", s |-> value.s]
                         [] OTHER -> NoneV
              misfit == /\ tuple.t = "types"
                        /\ \E i \in 1..Len(elements) :
                              Bases(elements[i].type) \cap Range(tuple.s) = {}
          IN  /\ elements' = elements
              /\ IF value.t = "value" \/ misfit
                 THEN last'.raised = "TypeError" /\ valid_types' = valid_types
                 ELSE last'.raised = "" /\ valid_types' = tuple
      ]_vars

\* types that a child held is no instance of were rejected
C17_Witness ==
    /\ last.op = "valid_types"
    /\ last.raised = "TypeError"
    /\ last.args.t = "type"
    /\ Len(elements) > 0

----------------------------------------------------------------------------
(* Properties of HTMLBuilder                                               *)

\* what a caller can observe of builder i: its attributes with its classes,
\* its children and its serialization
View(i) ==
    [attributes |-> Deref(heap, heap[builders[i].attributes].d),
     elements   |-> builders[i].elements,
     construct  |-> BuilderConstruct(heap, builders, builders[i])]

\* C5: a call made through one builder (attributes.add, classes.add, the
\* classes setter, add) never changes the attributes, classes, children or
\* serialization of the other builder.
C5_NoSharing ==
    [][ \A i, j \in BuilderIds :
            ( /\ i # j
              /\ builders[i].made
              /\ builders[j].made
              /\ ElemRef(i) \notin Range(builders[j].elements)
              /\ last'.op \in {"attributes.add", "classes.add", "attributes.classes", "add"}
              /\ last'.args[1] = i )
            => View(j)' = View(j)
      ]_vars

\* C14: a container element serializes to "<" tag attributes ">", its
\* children in order (a text as itself, an element by its own construct),
\* "</" tag ">"; a void element to "<" tag attributes ">" alone, where
\* attributes is empty or a space and the attribute string.
C14_Serialization ==
    last.op = "construct" =>
        LET b == builders[last.args[1]]
            attrs == Deref(heap, heap[b.attributes].d)
            rendered == IF Len(attrs) = 0 THEN <<>> ELSE <<" ">> \o AttributesConstruct(attrs)
            open == <<"<">> \o b.tag \o rendered \o <<">">>
            child(c) == IF c.t = "str" THEN c.s
                        ELSE BuilderConstruct(heap, builders, builders[c.r])
        IN  IF b.tag = BR
            THEN last.ret = open
            ELSE last.ret = open
                    \o Join([k \in 1..Len(b.elements) |-> child(b.elements[k])], <<>>)
                    \o <<"<", "/">> \o b.tag \o <<">">>

\* a div with the children "x" and LineBreak() serialized to <div>x<br></div>
C14_Witness ==
    /\ last.op = "construct"
    /\ builders[1].elements = <<StrV(<<"x">>), ElemRef(2)>>
    /\ last.ret = <<"<", "d", "i", "v", ">", "x", "<", "b", "r", ">", "<", "/", "d", "i", "v", ">">>

\* the tag, the attributes and the children of builder i, each child that is
\* an element by its own structure
RECURSIVE Structure(_)
Structure(i) ==
    [tag        |-> builders[i].tag,
     attributes |-> Deref(heap, heap[builders[i].attributes].d),
     elements   |-> [k \in 1..Len(builders[i].elements) |->
                        IF builders[i].elements[k].t = "elem"
                        THEN Structure(builders[i].elements[k].r)
                        ELSE builders[i].elements[k]]]

\* C15: two elements are equal iff their tag, their attributes and their
\* children are all equal.
C15_DeepEquality ==
    last.op = "eq" =>
        (last.ret <=> Structure(last.args[1]) = Structure(last.args[2]))

\* C18: an element constructed with attributes that hold a class entry and
\* with a classes argument has the classes argument as its class list and
\* every other attribute of the attributes argument, in order.
C18_ClassesArgumentWins ==
    [][ ( /\ last'.op = "Div"
          /\ last'.args[2] = "A"
          /\ HasKey(heap["A"].d, CLASS)
          /\ last'.args[3].t # "none" )
        => LET cls == last'.args[3]
               given == IF cls.t = "str" THEN ClassesFromString(cls.s) ELSE heap[cls.r].d
               b == builders'[last'.args[1]]
               d == Deref(heap', heap'[b.attributes].d)
           IN  /\ HasKey(d, CLASS)
               /\ Get(d, CLASS) = ClsV(given)
               /\ DictDel(d, CLASS) = DictDel(Deref(heap, heap["A"].d), CLASS)
      ]_vars

\* a Div was made from the caller's Attributes, which held a class entry
\* and an id, and a class string
C18_Witness ==
    /\ last.op = "Div"
    /\ last.args[2] = "A"
    /\ last.args[3].t = "str"
    /\ Keys(heap["A"].d) = <<CLASS, ID>>
    /\ builders[last.args[1]].attributes = "A"

\* C20: construct() changes no builder and no object a builder refers to,
\* and two construct() calls of one builder in a row return the same string.
C20_PureRead ==
    [][ last'.op = "construct" =>
          /\ heap' = heap
          /\ builders' = builders
          /\ (last.op = "construct" /\ last.args = last'.args) => last'.ret = last.ret
      ]_vars

\* construct() was called on a div that holds an element sharing the
\* caller's Attributes
C20_Witness ==
    /\ last.op = "construct"
    /\ last.args = <<1>>
    /\ ElemRef(2) \in Range(builders[1].elements)
    /\ builders[2].attributes = "A"

\* the children of a builder are its own: add through one builder never
\* changes the children of the other
BuilderOwnsElements ==
    [][ \A i, j \in BuilderIds :
            (i # j /\ builders[j].made /\ last'.op = "add" /\ last'.args[1] = i)
            => builders'[j].elements = builders[j].elements
      ]_vars

----------------------------------------------------------------------------
(* Properties of Attributes                                                *)

\* C3: the reserved key "class" is always stored and always holds a Classes
\* object, never a plain string and never absent.
C3_ClassKeyPresent ==
    /\ HasKey(attributes, CLASS)
    /\ Get(attributes, CLASS).t = "cls"

\* the number of quote characters of s
RECURSIVE CountQuotes(_)
CountQuotes(s) ==
    IF s = <<>> THEN 0
    ELSE (IF Head(s) = QUOTE THEN 1 ELSE 0) + CountQuotes(Tail(s))

\* a bare word (no quote, no "="), or name='value' with a non-empty name
\* holding no "=" and a value holding no quote
PlainToken(tok) ==
    \/ CountQuotes(tok) = 0 /\ IndexFrom(tok, "=", 1) = 0
    \/ /\ CountQuotes(tok) = 2
       /\ tok[Len(tok)] = QUOTE
       /\ LET i == IndexFrom(tok, QUOTE, 1)
          IN  i >= 3 /\ IndexFrom(tok, "=", 1) = i - 1

\* an attribute string of the text-boundary grammar, without nested quotes:
\* whitespace-separated tokens, each a bare word or name='value'
NoNestedQuotes(s) ==
    LET toks == SplitPreservingQuotes(s)
    IN  \A i \in 1..Len(toks) : PlainToken(toks[i])

\* C6: round trip: for every attribute string s without nested quotes, with
\* A = from_string(s), from_string(A.construct()) == A.
C6_RoundTrip ==
    (rt.pc = "reparsed" /\ NoNestedQuotes(rt.string))
        => AttributesEq(rt.reparsed, rt.parsed)

\* C7: add(m) is first-write-wins: every key stored before keeps its place
\* and value, every key of m that was not stored is appended with m's value
\* (a class string as the Classes made of it), and adding a class entry to a
\* fresh Attributes leaves its class list empty.
C7_AddFirstWins ==
    [][ last'.op = "add" =>
          LET m == last'.args
          IN  /\ Len(attributes') >= Len(attributes)
              /\ SubSeq(attributes', 1, Len(attributes)) = attributes
              /\ \A i \in 1..Len(m) :
                    ~HasKey(attributes, m[i][1]) =>
                        /\ HasKey(attributes', m[i][1])
                        /\ Get(attributes', m[i][1]) = Get(CoerceClass(m), m[i][1])
              /\ \A k \in Range(Keys(attributes')) :
                    HasKey(attributes, k) \/ HasKey(m, k)
              /\ (attributes = AttributesInit(FALSE, <<>>) /\ HasKey(m, CLASS))
                    => AttributesClasses(attributes') = ClsV(<<>>)
      ]_vars

\* remove(name) of a name that is not stored raises KeyError and changes
\* nothing; of a stored name other than "class" it deletes that key alone,
\* returns (name, value) and keeps every other entry, the class list among
\* them, in order
RemoveContract ==
    [][ last'.op = "remove" =>
          LET name == last'.args
          IN  /\ last'.raised <=> ~HasKey(attributes, name)
              /\ last'.raised => attributes' = attributes
              /\ (~last'.raised /\ name # CLASS) =>
                    /\ last'.ret = <<name, Get(attributes, name)>>
                    /\ ~HasKey(attributes', name)
                    /\ \E i \in 1..Len(attributes) :
                          /\ attributes[i][1] = name
                          /\ attributes' = Without(attributes, i)
                    /\ AttributesClasses(attributes') = AttributesClasses(attributes)
      ]_vars

\* C11: remove(name) raises KeyError and changes nothing for a name that is
\* not stored, deletes exactly the key and returns (name, value) for a
\* stored name other than "class"; attributes[key] raises KeyError for a
\* missing key, except "class", which always exists.
C11_RemoveAndGet ==
    [][ /\ last'.op = "remove" =>
              LET name == last'.args
              IN  /\ last'.raised <=> ~HasKey(attributes, name)
                  /\ last'.raised => attributes' = attributes
                  /\ (~last'.raised /\ name # CLASS) =>
                        /\ last'.ret = <<name, Get(attributes, name)>>
                        /\ \E i \in 1..Len(attributes) :
                              /\ attributes[i][1] = name
                              /\ attributes' = Without(attributes, i)
                        /\ AttributesClasses(attributes') = AttributesClasses(attributes)
        /\ last'.op = "getitem" =>
              /\ last'.args # CLASS => (last'.raised <=> ~HasKey(attributes, last'.args))
              /\ last'.args = CLASS => ~last'.raised
      ]_vars

\* a value rendered as the bare key
Bare(v) == v.t = "none" \/ v = TrueV

\* C12: construct() renders the entries in insertion order joined by single
\* spaces: True and None as the bare key, False and every other falsy value
\* not at all, every other value as key='value'.
C12_Construct ==
    last.op = "construct" =>
        LET kept == SelectSeq(attributes, LAMBDA e : Bare(e[2]) \/ Truthy(e[2]))
            token(e) == IF Bare(e[2]) THEN e[1]
                        ELSE e[1] \o <<"=", QUOTE>> \o ToStr(e[2]) \o <<QUOTE>>
        IN  last.ret = Join([i \in 1..Len(kept) |-> token(kept[i])], <<" ">>)

\* {id: 'test', disabled: True, width: 50} rendered as
\* id='test' disabled width='50'
C12_Witness ==
    /\ last.op = "construct"
    /\ Keys(attributes) = <<ID, DISABLED, WIDTH>>
    /\ last.ret = <<"i", "d", "=", QUOTE, "t", "e", "s", "t", QUOTE, " ">> \o DISABLED
                    \o <<" ">> \o WIDTH \o <<"=", QUOTE, "5", "0", QUOTE>>

\* p occurs in q
Infix(p, q) == \E i \in 1..(Len(q) - Len(p) + 1) : SubSeq(q, i, i + Len(p) - 1) = p

\* C13: construct() renders a Classes value under "class" as
\* class='<Classes.construct()>' and omits it when that class string is
\* empty: the output never contains class=''.
C13_NoEmptyClass ==
    (last.op = "construct" /\ HasKey(attributes, CLASS) /\ Get(attributes, CLASS).t = "cls") =>
        LET string == ClassesConstruct(Get(attributes, CLASS).c)
        IN  /\ string # <<>> =>
                Infix(CLASS \o <<"=", QUOTE>> \o string \o <<QUOTE>>, last.ret)
            /\ string = <<>> => ~Infix(CLASS, last.ret)
            /\ ~Infix(CLASS \o <<"=", QUOTE, QUOTE>>, last.ret)

\* C21: set(m) replaces wholesale: afterwards the stored keys are exactly
\* the keys of m plus the reserved key "class", a string given for "class"
\* is stored as Classes.from_string of it, and when m has no class key (or
\* class is None) the class entry is an empty Classes.
C21_SetReplaces ==
    last.op = "set" =>
        LET m == last.args
        IN  /\ Range(Keys(attributes)) = Range(Keys(m)) \cup {CLASS}
            /\ \A k \in Range(Keys(m)) \ {CLASS} : Get(attributes, k) = Get(m, k)
            /\ (HasKey(m, CLASS) /\ Get(m, CLASS).t = "str") =>
                  Get(attributes, CLASS) = ClsV(ClassesFromString(Get(m, CLASS).s))
            /\ (~HasKey(m, CLASS) \/ Get(m, CLASS).t = "none") =>
                  AttributesClasses(attributes) = ClsV(ClassesInit(<<>>))

\* set(m) stores a copy of m with a class string converted: exactly the keys
\* of m in m's order, every key stored before and absent from m gone
SetContract ==
    last.op = "set" =>
        LET m == last.args
        IN  /\ Keys(attributes) = Keys(m)
            /\ \A k \in Range(Keys(m)) \ {CLASS} : Get(attributes, k) = Get(m, k)
            /\ (HasKey(m, CLASS) /\ Get(m, CLASS).t = "str") =>
                  Get(attributes, CLASS) = ClsV(ClassesFromString(Get(m, CLASS).s))
            /\ (HasKey(m, CLASS) /\ Get(m, CLASS).t = "cls") =>
                  Get(attributes, CLASS) = Get(m, CLASS)

----------------------------------------------------------------------------
(* Equality: a caller builds two Classes objects, or two Attributes        *)
(* objects, and compares them with ==.                                     *)

\* The class names the two Classes objects are made of
EqNames == { <<"a", " ", "b">>, <<"a", "-", "b">>, <<"A">>, <<"c">> }

\* The argument lists of Classes(...): up to two names
EqArgs ==
    { <<>> } \cup { <<n>> : n \in EqNames } \cup { <<n, o>> : n \in EqNames, o \in EqNames }

\* The mappings of Attributes(...): the same entries in both key orders, a
\* class entry given as a Classes object and as a class string
EqMaps ==
    { <<>>,
      << <<ID, StrV(<<"x">>)>> >>,
      << <<ID, StrV(<<"x">>)>>, <<KEY, TrueV>> >>,
      << <<KEY, TrueV>>, <<ID, StrV(<<"x">>)>> >>,
      << <<ID, StrV(<<"x">>)>>, <<KEY, BoolV(FALSE)>> >>,
      << <<CLASS, ClsV(ClassesInit(<< <<"a", " ", "b">>, <<"A">> >>))>>, <<ID, StrV(<<"x">>)>> >>,
      << <<ID, StrV(<<"x">>)>>, <<CLASS, StrV(<<"a", " ", "a", "-", "b">>)>> >>,
      << <<ID, StrV(<<"x">>)>>, <<CLASS, StrV(<<"c">>)>> >> }

\* left = Classes(*args); right = Classes(*args), or the same of Attributes
InitEquality ==
    /\ \/ \E l \in EqArgs, r \in EqArgs :
            rt = [pc |-> "operands", kind |-> "classes",
                  left |-> ClassesInit(l), right |-> ClassesInit(r)]
       \/ \E l \in EqMaps, r \in EqMaps :
            rt = [pc |-> "operands", kind |-> "attributes",
                  left |-> AttributesInit(TRUE, l), right |-> AttributesInit(TRUE, r)]
    /\ classes = <<>>
    /\ replacements = DEFAULT_REPLACEMENTS
    /\ attributes = <<>>
    /\ ElementsIdle
    /\ last = Call("init", <<>>, <<>>, FALSE)

\* left == right on two Classes objects
EClassesEq ==
    /\ rt.pc = "operands"
    /\ rt.kind = "classes"
    /\ rt' = [pc |-> "compared", kind |-> rt.kind, left |-> rt.left, right |-> rt.right,
              ret |-> ClassesEq(rt.left, rt.right)]
    /\ RoundTripFrame

\* left == right on two Attributes objects
EAttributesEq ==
    /\ rt.pc = "operands"
    /\ rt.kind = "attributes"
    /\ rt' = [pc |-> "compared", kind |-> rt.kind, left |-> rt.left, right |-> rt.right,
              ret |-> AttributesEq(rt.left, rt.right)]
    /\ RoundTripFrame

NextEquality ==
    \/ EClassesEq
    \/ EAttributesEq

SpecEquality == InitEquality /\ [][NextEquality]_vars

\* the set of sanitized values of a class list
SanitizedSet(c) == { c[i][2] : i \in 1..Len(c) }

\* the set of keys of a mapping
KeySet(m) == { m[i][1] : i \in 1..Len(m) }

\* the value stored under a key of a mapping
ValueAt(m, k) == m[CHOOSE i \in 1..Len(m) : m[i][1] = k][2]

\* C22: two Classes objects are equal iff their sets of sanitized values
\* are equal, whatever the original names and the insertion order; two
\* Attributes objects are equal iff they hold the same keys with equal
\* values, class entries compared by that rule, whatever the key order.
C22_Equality ==
    rt.pc = "compared" =>
        /\ rt.kind = "classes" =>
              (rt.ret <=> SanitizedSet(rt.left) = SanitizedSet(rt.right))
        /\ rt.kind = "attributes" =>
              (rt.ret <=>
                  /\ KeySet(rt.left) = KeySet(rt.right)
                  /\ \A k \in KeySet(rt.left) :
                        LET v == ValueAt(rt.left, k)
                            w == ValueAt(rt.right, k)
                        IN  IF v.t = "cls" /\ w.t = "cls"
                            THEN SanitizedSet(v.c) = SanitizedSet(w.c)
                            ELSE v = w)

\* Classes('a b', 'A') == Classes('a', 'a-b') is True
C22_Witness ==
    /\ rt.pc = "compared"
    /\ rt.kind = "classes"
    /\ Keys(rt.left) = << <<"a", " ", "b">>, <<"A">> >>
    /\ Keys(rt.right) = << <<"A">>, <<"a", "-", "b">> >>
    /\ rt.ret

\* two Attributes objects with the same entries in another key order, the
\* class lists given with other names in another order, compare equal
C22_WitnessAttributes ==
    /\ rt.pc = "compared"
    /\ rt.kind = "attributes"
    /\ Keys(rt.left) = <<CLASS, ID>>
    /\ Keys(rt.right) = <<ID, CLASS>>
    /\ rt.ret

----------------------------------------------------------------------------
(* One Text element (Paragraph, Heading1 .. Heading6) under a caller that  *)
(* constructs it with a text and then calls set, clear, text and           *)
(* construct in any order. Its children are an Elements object.            *)

\* TextType: the tags of Paragraph and Heading1 .. Heading6
TextTags ==
    { <<"p">>, <<"h", "1">>, <<"h", "2">>, <<"h", "3">>, <<"h", "4">>, <<"h", "5">>, <<"h", "6">> }

\* The texts a caller gives
Texts == { <<>>, <<"a">>, <<"b", "c">> }

\* a set that adds the text to the children
TextSetAdding(els, text, max) == ElementsAdd(els, << Child("str", text) >>, max, NoneV)

\* Text.set(text): elements.set(text)
TextSet(els, text, max) == ElementsSet(els, << Child("str", text) >>, max, NoneV)

\* Text.clear(): elements.clear()
TextClear(els) == ElementsClear(els)

\* the text property: the first child, "" when there is none
TextText(els) == IF Len(els) > 0 THEN els[1].v ELSE <<>>

\* Text.construct(): the opening tag with the attributes, every child, the
\* closing tag
TextConstruct(t, attrs, els) ==
    LET attributes_string == IF AttributesBool(attrs)
                             THEN <<" ">> \o AttributesConstruct(attrs) ELSE <<>>
    IN  <<"<">> \o t \o attributes_string \o <<">">>
            \o Concat([i \in 1..Len(els) |-> els[i].v])
            \o <<"<", "/">> \o t \o <<">">>

\* what a call on the Text element leaves alone
TextFrame == UNCHANGED <<classVars, attributes, max_elements, valid_types, heapVars, tag, rt>>

\* Text(text, tag, attributes): max_elements = 1, then set(text)
InitText ==
    /\ classes = <<>>
    /\ replacements = DEFAULT_REPLACEMENTS
    /\ rt = RtIdle
    /\ heap = [id \in ObjIds |-> NoObject]
    /\ builders = [i \in BuilderIds |-> NoBuilder]
    /\ valid_types = NoneV
    /\ max_elements = ElementsSetMax(<<>>, NoneV, IntV(1)).max
    /\ \E t \in TextTags, text \in Texts, given \in BOOLEAN :
        /\ tag = t
        /\ attributes = AttributesInit(given, << <<ID, StrV(<<"x">>)>> >>)
        /\ elements = TextSet(<<>>, text, max_elements).elements
        /\ last = Call("init", text, <<>>, "")

TSet ==
    \E text \in Texts :
        LET r == TextSet(elements, text, max_elements)
        IN  /\ elements' = r.elements
            /\ last' = Call("set", text, r.ret, r.raised)
            /\ TextFrame

TClear ==
    LET r == TextClear(elements)
    IN  /\ elements' = r.elements
        /\ last' = Call("clear", <<>>, r.ret, r.raised)
        /\ TextFrame

TText ==
    /\ elements' = elements
    /\ last' = Call("text", <<>>, TextText(elements), "")
    /\ TextFrame

TConstruct ==
    /\ elements' = elements
    /\ last' = Call("construct", <<>>, TextConstruct(tag, attributes, elements), "")
    /\ TextFrame

NextText ==
    \/ TSet
    \/ TClear
    \/ TText
    \/ TConstruct

SpecText == InitText /\ [][NextText]_vars

C23_WitnessCleared ==
    /\ last.op = "construct"
    /\ elements = <<>>
    /\ last.ret = <<"<", "p", ">", "<", "/", "p", ">">>

----------------------------------------------------------------------------
(* One OrderedList or UnorderedList under a caller that constructs it and  *)
(* then calls add, set, insert and update in any order. Its children are   *)
(* an Elements object without a limit and without a type constraint.       *)

\* the tags of OrderedList and UnorderedList
ListTags == { <<"o", "l">>, <<"u", "l">> }

\* list items a caller offers
ListItems == { Child("ListItem", "li1"), Child("ListItem", "li2") }

\* values a caller offers as children of a list: list items, a str, a Div
\* and an int
ListOffered == ListItems \cup { Child("str", "x"), Child("Div", "div"), Child("int", "1") }

\* the argument lists of OrderedList(...), add and set
ListArgs ==
    {<<>>} \cup { <<a>> : a \in ListOffered }
           \cup { <<a, b>> : a \in ListOffered, b \in ListOffered }

\* OrderedList._raise_if_incorrect_type over the values of a call, in order:
\* the TypeError of the first value that is no instance of the expected
\* type, with the two names of its message
RaiseIfIncorrectType(els, values, expected_type) ==
    LET bad == { i \in 1..Len(values) : expected_type \notin Bases(values[i].type) }
        first == CHOOSE i \in bad : \A j \in bad : i <= j
    IN  IF bad = {} THEN Done(els, <<>>)
        ELSE [elements |-> els, ret |-> <<expected_type, values[first].type>>,
              raised |-> "TypeError"]

\* an add that hands each value to the collection as soon as it is checked
OrderedListAddEach(els, children) ==
    LET bad == { i \in 1..Len(children) : "ListItem" \notin Bases(children[i].type) }
        first == CHOOSE i \in bad : \A j \in bad : i <= j
    IN  IF bad = {} THEN ElementsAdd(els, children, NoneV, NoneV)
        ELSE [elements |-> els \o SubSeq(children, 1, first - 1),
              ret |-> <<"ListItem", children[first].type>>, raised |-> "TypeError"]

\* OrderedList.add(*elements)
OrderedListAdd(els, children) ==
    LET checked == RaiseIfIncorrectType(els, children, "ListItem")
    IN  IF checked.raised # "" THEN checked ELSE ElementsAdd(els, children, NoneV, NoneV)

\* OrderedList.set(*elements)
OrderedListSet(els, children) ==
    LET checked == RaiseIfIncorrectType(els, children, "ListItem")
    IN  IF checked.raised # "" THEN checked ELSE ElementsSet(els, children, NoneV, NoneV)

\* OrderedList.insert(index, element)
OrderedListInsert(els, index, child) ==
    LET checked == RaiseIfIncorrectType(els, <<child>>, "ListItem")
    IN  IF checked.raised # "" THEN checked ELSE ElementsInsert(els, index, child, NoneV, NoneV)

\* OrderedList.update(index, element)
OrderedListUpdate(els, index, child) ==
    LET checked == RaiseIfIncorrectType(els, <<child>>, "ListItem")
    IN  IF checked.raised # "" THEN checked ELSE ElementsUpdate(els, index, child, NoneV, NoneV)

\* what a call on the list leaves alone
ListFrame == UNCHANGED <<classVars, attributes, max_elements, valid_types, heapVars, tag, rt>>

\* OrderedList(elements) / UnorderedList(elements): TypeError unless every
\* element is a ListItem, so a list that exists was given list items only
InitLists ==
    /\ classes = <<>>
    /\ replacements = DEFAULT_REPLACEMENTS
    /\ attributes = <<>>
    /\ rt = RtIdle
    /\ heap = [id \in ObjIds |-> NoObject]
    /\ builders = [i \in BuilderIds |-> NoBuilder]
    /\ max_elements = NoneV
    /\ valid_types = NoneV
    /\ tag \in ListTags
    /\ \E args \in ListArgs :
        /\ \A i \in 1..Len(args) : "ListItem" \in Bases(args[i].type)
        /\ elements = args
        /\ last = Call("init", args, <<>>, "")

LAdd ==
    \E args \in ListArgs :
        LET r == OrderedListAdd(elements, args)
        IN  /\ Bounded(r)
            /\ elements' = r.elements
            /\ last' = Call("add", args, r.ret, r.raised)
            /\ ListFrame

LSet ==
    \E args \in ListArgs :
        LET r == OrderedListSet(elements, args)
        IN  /\ elements' = r.elements
            /\ last' = Call("set", args, r.ret, r.raised)
            /\ ListFrame

LInsert ==
    \E index \in Indices, child \in ListOffered :
        LET r == OrderedListInsert(elements, index, child)
        IN  /\ Bounded(r)
            /\ elements' = r.elements
            /\ last' = Call("insert", <<index, child>>, r.ret, r.raised)
            /\ ListFrame

LUpdate ==
    \E index \in Indices, child \in ListOffered :
        LET r == OrderedListUpdate(elements, index, child)
        IN  /\ elements' = r.elements
            /\ last' = Call("update", <<index, child>>, r.ret, r.raised)
            /\ ListFrame

NextLists ==
    \/ LAdd
    \/ LSet
    \/ LInsert
    \/ LUpdate

SpecLists == InitLists /\ [][NextLists]_vars

\* a value that is no ListItem
NotListItem(child) == child.type # "ListItem"

\* C24: add, set, insert and update of a list raise TypeError ("Expected
\* ListItem object, got <type>") when any supplied element is not a
\* ListItem, and then the children are unchanged, also when list items
\* precede the invalid element in the call; every child of a list is a
\* ListItem.
C24_ListItemsOnly ==
    /\ [](\A i \in 1..Len(elements) : elements[i].type = "ListItem")
    /\ [][ ( /\ last'.op \in {"add", "set", "insert", "update"}
             /\ \E i \in 1..Len(Incoming(last')) : NotListItem(Incoming(last')[i]) )
           => /\ last'.raised = "TypeError"
              /\ last'.ret[1] = "ListItem"
              /\ \E i \in 1..Len(Incoming(last')) :
                    /\ NotListItem(Incoming(last')[i])
                    /\ last'.ret[2] = Incoming(last')[i].type
              /\ elements' = elements
         ]_vars

\* add(li2, 1) on a list holding li1 raised "Expected ListItem object, got
\* int" and the list still holds li1 alone
C24_Witness ==
    /\ last.op = "add"
    /\ last.args = << Child("ListItem", "li2"), Child("int", "1") >>
    /\ last.raised = "TypeError"
    /\ last.ret = <<"ListItem", "int">>
    /\ elements = << Child("ListItem", "li1") >>

----------------------------------------------------------------------------
(* One Table under a caller that constructs it and then calls its header   *)
(* and data methods in any order. Its children are a plain list: the       *)
(* header, when there is one, and the rows.                                *)

\* the largest count of rows the caller lets a table reach
MaxRows == 2

TABLE == <<"t", "a", "b", "l", "e">>

\* None as a header argument and as a returned header
NoHeader == Child("NoneType", "None")

\* The header arguments the methods are annotated with: Header | Row | None
HeaderValues == { Child("Header", "h1"), Child("Header", "h2"), Child("Row", "r1"), NoHeader }

\* The items of a data argument (list[Row] | list[list[Any]]): rows, a
\* plain list, and a Header, which is a Row
DataItems == { Child("Row", "r1"), Child("Row", "r2"), Child("list", "l1"), Child("Header", "h2") }

\* The data arguments: up to MaxRows items
DataValues ==
    {<<>>} \cup { <<a>> : a \in DataItems } \cup { <<a, b>> : a \in DataItems, b \in DataItems }

\* Table._header_exists: there is a first child and it is a Header
TableHeaderExists(els) == Len(els) > 0 /\ "Header" \in Bases(els[1].type)

\* the header property
TableHeader(els) == IF TableHeaderExists(els) THEN els[1] ELSE NoHeader

\* Table.update_header: replace the header, or insert at the front
TableUpdateHeader(els, header) ==
    IF TableHeaderExists(els) THEN [els EXCEPT ![1] = header] ELSE <<header>> \o els

\* Table.add_header: nothing for None, else insert at the front or update
TableAddHeader(els, header) ==
    IF header = NoHeader THEN els
    ELSE IF ~TableHeaderExists(els) THEN <<header>> \o els
    ELSE TableUpdateHeader(els, header)

\* Table.remove_header: the children afterwards and the removed header
TableRemoveHeader(els) ==
    IF TableHeaderExists(els) THEN [elements |-> Tail(els), ret |-> els[1]]
    ELSE [elements |-> els, ret |-> NoHeader]

\* the conversion of add_data: an item that is not a Row becomes Row(item)
AsRow(item) == IF "Row" \in Bases(item.type) THEN item ELSE Child("Row", item.v)

\* Table.add_data: every item is appended, converted to a Row if necessary
TableAddData(els, data) == els \o [i \in 1..Len(data) |-> AsRow(data[i])]

\* Table.clear_data: the header is taken out, the children cleared, the
\* header put back
TableClearData(els) ==
    LET removed == TableRemoveHeader(els)
    IN  IF removed.ret # NoHeader THEN TableAddHeader(<<>>, removed.ret) ELSE <<>>

\* Table.set_data
TableSetData(els, data) == TableAddData(TableClearData(els), data)

\* Table.clear
TableClear(els) == TableClearData(TableRemoveHeader(els).elements)

\* Table(data, header)
TableInit(data, header) == TableAddHeader(TableAddData(<<>>, data), header)

\* what a call on the table leaves alone
TableFrame == UNCHANGED <<classVars, attributes, max_elements, valid_types, heapVars, tag, rt>>

InitTable ==
    /\ classes = <<>>
    /\ replacements = DEFAULT_REPLACEMENTS
    /\ attributes = <<>>
    /\ rt = RtIdle
    /\ heap = [id \in ObjIds |-> NoObject]
    /\ builders = [i \in BuilderIds |-> NoBuilder]
    /\ max_elements = NoneV
    /\ valid_types = NoneV
    /\ tag = TABLE
    /\ \E data \in DataValues, header \in HeaderValues :
        /\ elements = TableInit(data, header)
        /\ last = Call("init", <<data, header>>, <<>>, "")

\* table.header
TbHeader ==
    /\ elements' = elements
    /\ last' = Call("header", <<>>, TableHeader(elements), "")
    /\ TableFrame

\* table.header = value
TbSetHeader ==
    \E header \in HeaderValues :
        /\ elements' = TableUpdateHeader(elements, header)
        /\ Len(elements') <= MaxRows + 1
        /\ last' = Call("header=", header, <<>>, "")
        /\ TableFrame

TbAddHeader ==
    \E header \in HeaderValues :
        /\ elements' = TableAddHeader(elements, header)
        /\ Len(elements') <= MaxRows + 1
        /\ last' = Call("add_header", header, <<>>, "")
        /\ TableFrame

TbUpdateHeader ==
    \E header \in HeaderValues :
        /\ elements' = TableUpdateHeader(elements, header)
        /\ Len(elements') <= MaxRows + 1
        /\ last' = Call("update_header", header, <<>>, "")
        /\ TableFrame

TbRemoveHeader ==
    LET r == TableRemoveHeader(elements)
    IN  /\ elements' = r.elements
        /\ last' = Call("remove_header", <<>>, r.ret, "")
        /\ TableFrame

TbAddData ==
    \E data \in DataValues :
        /\ elements' = TableAddData(elements, data)
        /\ Len(elements') <= MaxRows + 1
        /\ last' = Call("add_data", data, <<>>, "")
        /\ TableFrame

TbSetData ==
    \E data \in DataValues :
        /\ elements' = TableSetData(elements, data)
        /\ last' = Call("set_data", data, <<>>, "")
        /\ TableFrame

TbClearData ==
    /\ elements' = TableClearData(elements)
    /\ last' = Call("clear_data", <<>>, <<>>, "")
    /\ TableFrame

TbClear ==
    /\ elements' = TableClear(elements)
    /\ last' = Call("clear", <<>>, <<>>, "")
    /\ TableFrame

NextTable ==
    \/ TbHeader
    \/ TbSetHeader
    \/ TbAddHeader
    \/ TbUpdateHeader
    \/ TbRemoveHeader
    \/ TbAddData
    \/ TbSetData
    \/ TbClearData
    \/ TbClear

SpecTable == InitTable /\ [][NextTable]_vars

\* the positions of the stored Header objects
StoredHeaders(els) == { i \in 1..Len(els) : els[i].type = "Header" }

\* the rows: the children after the header
TableRows(els) == IF TableHeaderExists(els) THEN Tail(els) ELSE els

\* C25: the table holds at most one Header; if one is stored it is the
\* first child and what table.header returns, never one of the rows;
\* table.header is None exactly when no Header is stored.
C25_SingleHeader ==
    /\ Cardinality(StoredHeaders(elements)) <= 1
    /\ StoredHeaders(elements) \subseteq {1}
    /\ TableHeader(elements) = NoHeader <=> StoredHeaders(elements) = {}
    /\ \A i \in 1..Len(TableRows(elements)) : TableRows(elements)[i].type # "Header"
    /\ last.op = "header" =>
          last.ret = (IF StoredHeaders(elements) = {} THEN NoHeader ELSE elements[1])

\* C26: clear_data and set_data leave the header as it was, a table without
\* one still has none, and the rows become empty, respectively exactly the
\* supplied rows; clear removes header and rows, also on an empty table.
C26_RowsFrame ==
    [][ /\ last'.op = "clear_data" =>
              /\ TableHeader(elements') = TableHeader(elements)
              /\ TableRows(elements') = <<>>
        /\ last'.op = "set_data" =>
              /\ TableHeader(elements') = TableHeader(elements)
              /\ TableRows(elements') = [i \in 1..Len(last'.args) |-> AsRow(last'.args[i])]
        /\ last'.op = "clear" =>
              /\ last'.raised = ""
              /\ elements' = <<>>
      ]_vars

----------------------------------------------------------------------------
(* The opening tag: a caller holds a mapping m, as a plain dict and as     *)
(* Attributes(m), and a Classes object; it constructs a LineBreak or a Div *)
(* from them, reads its attributes and serializes it.                      *)

TEST == <<"t", "e", "s", "t">>

\* The mappings of the caller: empty, the id of the example, entries that
\* are not rendered, a bare key with an id
TagMaps ==
    { <<>>,
      << <<ID, StrV(TEST)>> >>,
      << <<KEY, BoolV(FALSE)>> >>,
      << <<ID, StrV(<<>>)>>, <<KEY, BoolV(FALSE)>> >>,
      << <<KEY, TrueV>>, <<ID, StrV(<<"x">>)>> >> }

\* The Classes object of the caller: Classes() or Classes("c")
TagClasses == { ClassesInit(<<>>), ClassesInit(<< <<"c">> >>) }

\* the `attributes` arguments: None, the caller's Attributes, its dict
TagAttributesArgs == {"", "A", "M"}

InitTag ==
    /\ classes = <<>>
    /\ replacements = DEFAULT_REPLACEMENTS
    /\ attributes = <<>>
    /\ elements = <<>>
    /\ max_elements = NoneV
    /\ valid_types = NoneV
    /\ rt = RtIdle
    /\ \E m \in TagMaps, k \in TagClasses :
        /\ heap = [CallerHeap(m) EXCEPT !["M"] = DictObject(m), !["K"] = ClassesObject(k)]
        /\ last = Call("init", <<m, k>>, <<>>, "")
    /\ builders = [i \in BuilderIds |-> NoBuilder]
    /\ tag = <<>>

\* LineBreak(attributes, classes)
GNewLineBreak ==
    \E attrs \in TagAttributesArgs, cls \in ClassesArgs :
        LET r == BuilderInit(heap, 1, attrs, cls)
        IN  /\ ~builders[1].made
            /\ heap' = r.heap
            /\ builders' = [builders EXCEPT
                    ![1] = IF r.raised = "" THEN [r.builder EXCEPT !.tag = BR] ELSE @]
            /\ last' = Call("LineBreak", <<1, attrs, cls>>, <<>>, r.raised)
            /\ BuilderFrame

\* Div(None, attributes, classes)
GNewDiv ==
    \E attrs \in TagAttributesArgs, cls \in ClassesArgs :
        LET r == BuilderInit(heap, 1, attrs, cls)
        IN  /\ ~builders[1].made
            /\ heap' = r.heap
            /\ builders' = [builders EXCEPT
                    ![1] = IF r.raised = "" THEN [r.builder EXCEPT !.tag = DIV] ELSE @]
            /\ last' = Call("Div", <<1, attrs, cls>>, <<>>, r.raised)
            /\ BuilderFrame

\* element.attributes: the class of the object and its entries
GAttributes ==
    /\ builders[1].made
    /\ last' = Call("attributes", <<1>>,
                    [kind |-> heap[builders[1].attributes].kind,
                     d |-> Deref(heap, heap[builders[1].attributes].d)], "")
    /\ UNCHANGED <<heap, builders>>
    /\ BuilderFrame

\* element.construct()
GConstruct ==
    /\ builders[1].made
    /\ last' = Call("construct", <<1>>, BuilderConstruct(heap, builders, builders[1]), "")
    /\ UNCHANGED <<heap, builders>>
    /\ BuilderFrame

NextTag ==
    \/ GNewLineBreak
    \/ GNewDiv
    \/ GAttributes
    \/ GConstruct

SpecTag == InitTag /\ [][NextTag]_vars

\* the entries of the Attributes object of the element
TagEntries == Deref(heap, heap[builders[1].attributes].d)

\* the opening tag of a serialized element: up to the first ">"
OpeningTag(html) == SubSeq(html, 1, IndexFrom(html, ">", 1))

\* C27: the rendered attribute section is empty or one space followed by a
\* non-empty Attributes.construct(): when Attributes.construct() is empty
\* the opening tag is exactly <tag>, and no opening tag holds a space right
\* before ">".
C27_NoTrailingSpace ==
    (last.op = "construct" /\ heap[builders[1].attributes].kind = "Attributes") =>
        LET constructed == AttributesConstruct(TagEntries)
            opening == OpeningTag(last.ret)
        IN  /\ constructed = <<>> => opening = <<"<">> \o builders[1].tag \o <<">">>
            /\ constructed # <<>> =>
                  opening = <<"<">> \o builders[1].tag \o <<" ">> \o constructed \o <<">">>
            /\ ~Infix(<<" ", ">">>, opening)

\* the element as it is when made from Attributes(m) in place of the dict m
AsAttributes(h) == [h EXCEPT !["M"].kind = "Attributes"]

\* C30: an element made with a plain mapping as its attributes argument
\* behaves as if made with Attributes(mapping): the constructor succeeds,
\* also with a classes argument, which sets the class list;
\* element.attributes is an Attributes object equal to Attributes(mapping);
\* construct() renders the entries as key='value' and bare keys.
C30_PlainMapping ==
    /\ (last.op \in {"LineBreak", "Div"} /\ last.args[2] = "M") =>
          /\ last.raised = ""
          /\ last.args[3].t # "none" =>
                /\ HasKey(TagEntries, CLASS)
                /\ Get(TagEntries, CLASS) =
                      ClsV(IF last.args[3].t = "str" THEN ClassesFromString(last.args[3].s)
                           ELSE heap[last.args[3].r].d)
    /\ (last.op = "attributes" /\ builders[1].attributes = "M") =>
          /\ last.ret.kind = "Attributes"
          /\ AttributesEq(last.ret.d, AttributesInit(TRUE, heap["M"].d))
    /\ (last.op = "construct" /\ builders[1].attributes = "M") =>
          last.ret = BuilderConstruct(AsAttributes(heap), builders, builders[1])

----------------------------------------------------------------------------
(* The caller's mapping: a caller holds a dict m and an Attributes object, *)
(* passes m to Attributes(m), set(m) or add(m), then changes m, and again. *)

\* the caller's dict after Attributes.set(m): set assigns the converted
\* class list into the dict it was given before it copies the dict
CallerAfterSet(m) == CoerceClass(m)

\* the caller's dict after Attributes.add(m): add filters m into a new dict
\* and converts the class string of that one
CallerAfterAdd(m) == m

\* What the caller does to its dict afterwards: m[key] = 'q' or del m[key]
Mutations == { [key |-> k, del |-> b] : k \in {ID, KEY}, b \in BOOLEAN }

Mutate(m, mutation) ==
    IF mutation.del THEN DictDel(m, mutation.key)
    ELSE DictSet(m, mutation.key, StrV(<<"q">>))

\* what a step of this scenario leaves alone
MappingFrame == UNCHANGED <<classVars, elemVars, heapVars, tag>>

\* rt.aliased: whether the Attributes object stores the caller's dict
\* itself; Attributes() and Attributes(m0) store a dict of their own
InitMapping ==
    /\ classes = <<>>
    /\ replacements = DEFAULT_REPLACEMENTS
    /\ ElementsIdle
    /\ \E m \in AttrMaps, given \in BOOLEAN :
        /\ attributes = AttributesInit(given, << <<ID, StrV(<<"x">>)>> >>)
        /\ rt = [pc |-> "start", mapping |-> m, before |-> m, aliased |-> FALSE]
        /\ last = Call("init", <<>>, <<>>, FALSE)

\* a = Attributes(m)
MConstruct ==
    /\ rt.pc = "start"
    /\ attributes' = AttributesInit(TRUE, rt.mapping)
    /\ rt' = [rt EXCEPT !.pc = "called", !.mapping = CallerAfterSet(@), !.aliased = FALSE]
    /\ last' = Call("Attributes", rt.mapping, <<>>, FALSE)
    /\ MappingFrame

\* a.set(m): self._attributes = dict(attributes), a copy
MSet ==
    /\ rt.pc = "start"
    /\ attributes' = AttributesSet(rt.mapping)
    /\ rt' = [rt EXCEPT !.pc = "called", !.mapping = CallerAfterSet(@), !.aliased = FALSE]
    /\ last' = Call("set", rt.mapping, <<>>, FALSE)
    /\ MappingFrame

\* a.add(m): self._attributes.update(...), in place
MAdd ==
    /\ rt.pc = "start"
    /\ attributes' = AttributesAdd(attributes, rt.mapping)
    /\ rt' = [rt EXCEPT !.pc = "called", !.mapping = CallerAfterAdd(@)]
    /\ last' = Call("add", rt.mapping, <<>>, FALSE)
    /\ MappingFrame

\* m[key] = 'q' or del m[key], by the caller
MMutate ==
    \E mutation \in Mutations :
        /\ rt.pc = "called"
        /\ mutation.del => HasKey(rt.mapping, mutation.key)
        /\ rt' = [rt EXCEPT !.pc = "start", !.mapping = Mutate(@, mutation),
                             !.before = Mutate(rt.mapping, mutation)]
        /\ attributes' = IF rt.aliased THEN Mutate(attributes, mutation) ELSE attributes
        /\ last' = Call("mutate", mutation, <<>>, FALSE)
        /\ MappingFrame

NextMapping ==
    \/ MConstruct
    \/ MSet
    \/ MAdd
    \/ MMutate

SpecMapping == InitMapping /\ [][NextMapping]_vars

\* C28: Attributes(m), set(m) and add(m) leave the caller's mapping m as it
\* was (same keys, same values, a class string still that string), and a
\* change of m after the call does not change the keys the Attributes
\* object stores.
C28_CallerMappingKept ==
    /\ [](rt.pc = "called" => rt.mapping = rt.before)
    /\ [][ last'.op = "mutate" => Keys(attributes') = Keys(attributes) ]_vars

\* add(m) leaves m as it was, and a change of m after Attributes(m), set(m)
\* or add(m) changes nothing the Attributes object stores
AddKeepsMapping ==
    /\ []((rt.pc = "called" /\ last.op = "add") => rt.mapping = rt.before)
    /\ []((rt.pc = "called" /\ ~HasKey(rt.before, CLASS)) => rt.mapping = rt.before)
    /\ [][ last'.op = "mutate" => attributes' = attributes ]_vars

----------------------------------------------------------------------------
(* Properties of the replacement table of Classes                          *)

\* every stored sanitized value is the sanitized form of its original name
\* under the current replacement table
SanitizedCurrent ==
    \A i \in 1..Len(classes) : classes[i][2] = SanitizeName(classes[i][1], replacements)

\* C29: after any sequence of add, set, remove, clear, assignment to
\* replacements and reset_replacements, every stored sanitized value equals
\* _sanitize_name(original key) under the current replacement table;
\* assigning replacements recomputes every sanitized value and keeps the
\* original keys.
C29_SanitizedUnderCurrentTable ==
    /\ []SanitizedCurrent
    /\ [][ last'.op = "replacements" =>
              /\ Keys(classes') = Keys(classes)
              /\ replacements' = last'.args ]_vars

\* the same without reset_replacements: every call but reset_replacements
\* leaves the stored values sanitized under the current table
SanitizedUnlessReset ==
    [][ (last'.op # "reset_replacements" /\ SanitizedCurrent) =>
            \A i \in 1..Len(classes') :
                classes'[i][2] = SanitizeName(classes'[i][1], replacements') ]_vars

============================================================================
